---- MODULE Spec2Model ----
(***************************************************************************)
(* Branching conversation tree (src/src/id-tree.ts, lines 1-234) and the   *)
(* path helper of the chat adapter (src/src/use-branching-chat.ts).        *)
(*                                                                         *)
(* Ids are strings, built by string concatenation exactly as the template  *)
(* literals of the source build them, so that a caller-supplied message id *)
(* can literally equal a derived part id or branch-root id.                *)
(* An optional argument (parentId?, branchLabel?) and a nullable result    *)
(* (parentIdOf) are sequences of length 0 (absent / null) or 1.            *)
(***************************************************************************)
EXTENDS Integers, Sequences, FiniteSets, TLC

VARIABLES
    root,            \* IdTree._root: the id of the root node
    children,        \* IdNode.children of every node object, by node id
    index,           \* keys of IdTree.index
    parentOf,        \* IdTree.parentOf: childId -> parentId
    messageIndex,    \* messageIndex: message id -> UIMessage
    lastTopLevelId,  \* lastTopLevelId
    appended,        \* history: per parent, the child ids of its successful appendChild calls
    kinds,           \* history: <<id, kind>> of every appended node, the kind ("message",
                     \*          "part", "branch") being the caller's purpose
    history,         \* history: the successful addMessage / beginBranch calls, in call order
    last,            \* the most recent call, its arguments and its outcome
    ui               \* useBranchingChat: the hook's state, refs and pending helpers

vars == <<root, children, index, parentOf, messageIndex, lastTopLevelId, appended, kinds,
          history, last, ui>>

-----------------------------------------------------------------------------
(* Bounds and input sets *)

MaxNodes == 5
MaxParts == 1
MaxReadNodes == 3

RootId == "conv"

PartTypes == {"text"}

\* "U1::part-0:text" is at once a message id a caller may pass, the id derived
\* for the first (text) part of U1 and the id derived for a branch of U1
\* labelled "part-0:text". "" is a missing id and RootId the id of the root.
MsgIds == {"", "U1", "A1", "U1::part-0:text", RootId}

Labels == {"part-0:text"}

MissingId == "nope"

None == <<>>
Some(x) == <<x>>

RECURSIVE SeqsUpTo(_, _)
SeqsUpTo(S, n) ==
    IF n = 0 THEN {<<>>}
    ELSE LET shorter == SeqsUpTo(S, n - 1)
         IN  shorter \cup {Append(s, x) : s \in {q \in shorter : Len(q) = n - 1}, x \in S}

\* The value of message.parts when it is not an array.
NoParts == <<"undefined">>

Messages == [id : MsgIds, parts : SeqsUpTo(PartTypes, MaxParts) \cup {NoParts}]

-----------------------------------------------------------------------------
(* IdTree *)

IdTreeNew(rootId) ==
    [root |-> rootId,
     children |-> (rootId :> <<>>),
     index |-> {rootId},
     parentOf |-> <<>>]

has(t, id) == id \in t.index

parentIdOf(t, id) == IF id \in DOMAIN t.parentOf THEN Some(t.parentOf[id]) ELSE None

\* appendChild without this.index.set(childId, child)
appendChild_noIndex(t, parentId, childId) ==
    IF ~(parentId \in t.index) THEN [err |-> "ParentNotFound", t |-> t]
    ELSE IF childId \in t.index THEN [err |-> "DuplicateId", t |-> t]
    ELSE [err |-> "ok",
          t |-> [root |-> t.root,
                 children |-> [n \in DOMAIN t.children \cup {childId} |->
                                 IF n = parentId THEN Append(t.children[n], childId)
                                 ELSE IF n = childId THEN <<>>
                                 ELSE t.children[n]],
                 index |-> t.index,
                 parentOf |-> [n \in DOMAIN t.parentOf \cup {childId} |->
                                 IF n = childId THEN parentId ELSE t.parentOf[n]]]]

\* appendChild with parent.children.unshift(child) for parent.children.push(child)
appendChild_unshift(t, parentId, childId) ==
    IF ~(parentId \in t.index) THEN [err |-> "ParentNotFound", t |-> t]
    ELSE IF childId \in t.index THEN [err |-> "DuplicateId", t |-> t]
    ELSE [err |-> "ok",
          t |-> [root |-> t.root,
                 children |-> [n \in DOMAIN t.children \cup {childId} |->
                                 IF n = parentId THEN <<childId>> \o t.children[n]
                                 ELSE IF n = childId THEN <<>>
                                 ELSE t.children[n]],
                 index |-> t.index \cup {childId},
                 parentOf |-> [n \in DOMAIN t.parentOf \cup {childId} |->
                                 IF n = childId THEN parentId ELSE t.parentOf[n]]]]

\* appendChild with parent.children = [child] instead of push
appendChild_resetChildren(t, parentId, childId) ==
    IF ~(parentId \in t.index) THEN [err |-> "ParentNotFound", t |-> t]
    ELSE IF childId \in t.index THEN [err |-> "DuplicateId", t |-> t]
    ELSE [err |-> "ok",
          t |-> [root |-> t.root,
                 children |-> [n \in DOMAIN t.children \cup {childId} |->
                                 IF n = parentId THEN <<childId>>
                                 ELSE IF n = childId THEN <<>>
                                 ELSE t.children[n]],
                 index |-> t.index \cup {childId},
                 parentOf |-> [n \in DOMAIN t.parentOf \cup {childId} |->
                                 IF n = childId THEN parentId ELSE t.parentOf[n]]]]

\* appendChild without this.parentOf.set(childId, parentId)
appendChild_noParentOf(t, parentId, childId) ==
    IF ~(parentId \in t.index) THEN [err |-> "ParentNotFound", t |-> t]
    ELSE IF childId \in t.index THEN [err |-> "DuplicateId", t |-> t]
    ELSE [err |-> "ok",
          t |-> [root |-> t.root,
                 children |-> [n \in DOMAIN t.children \cup {childId} |->
                                 IF n = parentId THEN Append(t.children[n], childId)
                                 ELSE IF n = childId THEN <<>>
                                 ELSE t.children[n]],
                 index |-> t.index \cup {childId},
                 parentOf |-> t.parentOf]]

\* find(id): the node, given by its id and the ids of its children
find(t, id) ==
    IF id \in t.index THEN Some([id |-> id, children |-> t.children[id]]) ELSE None

\* appendChild that looks for childId only among the children of the parent
appendChild_siblingCheck(t, parentId, childId) ==
    IF ~(parentId \in t.index) THEN [err |-> "ParentNotFound", t |-> t]
    ELSE IF \E k \in 1..Len(t.children[parentId]) : t.children[parentId][k] = childId
         THEN [err |-> "DuplicateId", t |-> t]
    ELSE [err |-> "ok",
          t |-> [root |-> t.root,
                 children |-> [n \in DOMAIN t.children \cup {childId} |->
                                 IF n = parentId THEN Append(t.children[n], childId)
                                 ELSE IF n = childId THEN <<>>
                                 ELSE t.children[n]],
                 index |-> t.index \cup {childId},
                 parentOf |-> [n \in DOMAIN t.parentOf \cup {childId} |->
                                 IF n = childId THEN parentId ELSE t.parentOf[n]]]]

appendChild(t, parentId, childId) ==
    IF ~(parentId \in t.index) THEN [err |-> "ParentNotFound", t |-> t]
    ELSE IF childId \in t.index THEN [err |-> "DuplicateId", t |-> t]
    ELSE [err |-> "ok",
          t |-> [root |-> t.root,
                 children |-> [n \in DOMAIN t.children \cup {childId} |->
                                 IF n = parentId THEN Append(t.children[n], childId)
                                 ELSE IF n = childId THEN <<>>
                                 ELSE t.children[n]],
                 index |-> t.index \cup {childId},
                 parentOf |-> [n \in DOMAIN t.parentOf \cup {childId} |->
                                 IF n = childId THEN parentId ELSE t.parentOf[n]]]]

-----------------------------------------------------------------------------
(* createConversationTree: the closure state is the record                 *)
(* [tree, messageIndex, lastTopLevelId]; appended and kinds are history.   *)

createConversationTree(rootId) ==
    [tree |-> IdTreeNew(rootId),
     messageIndex |-> <<>>,
     lastTopLevelId |-> rootId,
     appended |-> (rootId :> <<>>),
     kinds |-> {}]

RECURSIVE nextSuffix(_, _, _)
nextSuffix(t, base, i) ==
    IF has(t, base \o "-" \o ToString(i)) THEN nextSuffix(t, base, i + 1)
    ELSE base \o "-" \o ToString(i)

\* nextUniqueId with "let i = 2"
nextUniqueId_from2(t, base) ==
    IF ~has(t, base) THEN base ELSE nextSuffix(t, base, 2)

nextUniqueId(t, base) ==
    IF ~has(t, base) THEN base ELSE nextSuffix(t, base, 1)

\* A call tree.appendChild(parentId, childId) made by the conversation tree:
\* the tree changes as appendChild says and a successful call is recorded.
treeAppend(c, parentId, childId, kind) ==
    LET r == appendChild(c.tree, parentId, childId)
    IN  [err |-> r.err,
         c |-> IF r.err = "ok"
               THEN [c EXCEPT !.tree = r.t,
                              !.appended = [n \in DOMAIN @ \cup {parentId, childId} |->
                                              LET was == IF n \in DOMAIN @ THEN @[n] ELSE <<>>
                                              IN  IF n = parentId THEN Append(was, childId)
                                                  ELSE was],
                              !.kinds = @ \cup {<<childId, kind>>}]
               ELSE [c EXCEPT !.tree = r.t]]

partBase(parentMessageId, i, type) ==
    parentMessageId \o "::part-" \o ToString(i) \o ":" \o type

\* attachParts, from part number i (0-based as in the source) on; a throw of
\* appendChild leaves the loop with the parts attached so far.
RECURSIVE attachPartsFrom(_, _, _, _)
attachPartsFrom(c, parentMessageId, parts, i) ==
    IF ~(i < Len(parts)) THEN [err |-> "ok", c |-> c]
    ELSE LET base == partBase(parentMessageId, i, parts[i + 1])
             partId == nextUniqueId(c.tree, base)
             r == treeAppend(c, parentMessageId, partId, "part")
         IN  IF r.err # "ok" THEN r
             ELSE attachPartsFrom(r.c, parentMessageId, parts, i + 1)

\* attachParts whose loop starts at the second part
attachParts_from1(c, parentMessageId, parts) ==
    attachPartsFrom(c, parentMessageId, parts, 1)

attachParts(c, parentMessageId, parts) ==
    attachPartsFrom(c, parentMessageId, parts, 0)

\* addMessage without the tree.has(message.id) test
addMessage_noDupCheck(c, message, parentId) ==
    IF message.id = "" THEN [err |-> "IdRequired", c |-> c, node |-> ""]
    ELSE IF message.parts = NoParts THEN [err |-> "PartsRequired", c |-> c, node |-> ""]
    ELSE LET resolvedParent == IF parentId = None THEN c.lastTopLevelId ELSE parentId[1]
             r1 == treeAppend(c, resolvedParent, message.id, "message")
         IN  IF r1.err # "ok" THEN [err |-> r1.err, c |-> r1.c, node |-> ""]
             ELSE LET r2 == attachParts(r1.c, message.id, message.parts)
                  IN  IF r2.err # "ok" THEN [err |-> r2.err, c |-> r2.c, node |-> ""]
                      ELSE [err |-> "ok",
                            c |-> [r2.c EXCEPT
                                     !.messageIndex =
                                        [k \in DOMAIN @ \cup {message.id} |->
                                           IF k = message.id THEN message ELSE @[k]],
                                     !.lastTopLevelId = message.id],
                            node |-> message.id]

\* addMessage with messageIndex.set(message.id, message) moved before tree.appendChild
addMessage_registerFirst(c, message, parentId) ==
    IF message.id = "" THEN [err |-> "IdRequired", c |-> c, node |-> ""]
    ELSE IF message.parts = NoParts THEN [err |-> "PartsRequired", c |-> c, node |-> ""]
    ELSE IF has(c.tree, message.id)
    THEN [err |-> "DuplicateMessage", c |-> c, node |-> ""]
    ELSE LET resolvedParent == IF parentId = None THEN c.lastTopLevelId ELSE parentId[1]
             r1 == treeAppend([c EXCEPT !.messageIndex =
                                   [k \in DOMAIN @ \cup {message.id} |->
                                      IF k = message.id THEN message ELSE @[k]]],
                              resolvedParent, message.id, "message")
         IN  IF r1.err # "ok" THEN [err |-> r1.err, c |-> r1.c, node |-> ""]
             ELSE LET r2 == attachParts(r1.c, message.id, message.parts)
                  IN  IF r2.err # "ok" THEN [err |-> r2.err, c |-> r2.c, node |-> ""]
                      ELSE [err |-> "ok",
                            c |-> [r2.c EXCEPT
                                     !.messageIndex =
                                        [k \in DOMAIN @ \cup {message.id} |->
                                           IF k = message.id THEN message ELSE @[k]],
                                     !.lastTopLevelId = message.id],
                            node |-> message.id]

\* addMessage that attaches under lastTopLevelId whatever parentId says
addMessage_tail(c, message, parentId) ==
    IF message.id = "" THEN [err |-> "IdRequired", c |-> c, node |-> ""]
    ELSE IF message.parts = NoParts THEN [err |-> "PartsRequired", c |-> c, node |-> ""]
    ELSE IF has(c.tree, message.id)
    THEN [err |-> "DuplicateMessage", c |-> c, node |-> ""]
    ELSE LET resolvedParent == c.lastTopLevelId
             r1 == treeAppend(c, resolvedParent, message.id, "message")
         IN  IF r1.err # "ok" THEN [err |-> r1.err, c |-> r1.c, node |-> ""]
             ELSE LET r2 == attachParts(r1.c, message.id, message.parts)
                  IN  IF r2.err # "ok" THEN [err |-> r2.err, c |-> r2.c, node |-> ""]
                      ELSE [err |-> "ok",
                            c |-> [r2.c EXCEPT
                                     !.messageIndex =
                                        [k \in DOMAIN @ \cup {message.id} |->
                                           IF k = message.id THEN message ELSE @[k]],
                                     !.lastTopLevelId = message.id],
                            node |-> message.id]

\* addMessage that advances lastTopLevelId only when no parentId was given
addMessage_noAdvance(c, message, parentId) ==
    IF message.id = "" THEN [err |-> "IdRequired", c |-> c, node |-> ""]
    ELSE IF message.parts = NoParts THEN [err |-> "PartsRequired", c |-> c, node |-> ""]
    ELSE IF has(c.tree, message.id)
    THEN [err |-> "DuplicateMessage", c |-> c, node |-> ""]
    ELSE LET resolvedParent == IF parentId = None THEN c.lastTopLevelId ELSE parentId[1]
             r1 == treeAppend(c, resolvedParent, message.id, "message")
         IN  IF r1.err # "ok" THEN [err |-> r1.err, c |-> r1.c, node |-> ""]
             ELSE LET r2 == attachParts(r1.c, message.id, message.parts)
                  IN  IF r2.err # "ok" THEN [err |-> r2.err, c |-> r2.c, node |-> ""]
                      ELSE [err |-> "ok",
                            c |-> [r2.c EXCEPT
                                     !.messageIndex =
                                        [k \in DOMAIN @ \cup {message.id} |->
                                           IF k = message.id THEN message ELSE @[k]],
                                     !.lastTopLevelId = IF parentId = None THEN message.id ELSE @],
                            node |-> message.id]

\* addMessage without lastTopLevelId = message.id
addMessage_noTail(c, message, parentId) ==
    IF message.id = "" THEN [err |-> "IdRequired", c |-> c, node |-> ""]
    ELSE IF message.parts = NoParts THEN [err |-> "PartsRequired", c |-> c, node |-> ""]
    ELSE IF has(c.tree, message.id)
    THEN [err |-> "DuplicateMessage", c |-> c, node |-> ""]
    ELSE LET resolvedParent == IF parentId = None THEN c.lastTopLevelId ELSE parentId[1]
             r1 == treeAppend(c, resolvedParent, message.id, "message")
         IN  IF r1.err # "ok" THEN [err |-> r1.err, c |-> r1.c, node |-> ""]
             ELSE LET r2 == attachParts(r1.c, message.id, message.parts)
                  IN  IF r2.err # "ok" THEN [err |-> r2.err, c |-> r2.c, node |-> ""]
                      ELSE [err |-> "ok",
                            c |-> [r2.c EXCEPT
                                     !.messageIndex =
                                        [k \in DOMAIN @ \cup {message.id} |->
                                           IF k = message.id THEN message ELSE @[k]],
                                     !.lastTopLevelId = @],
                            node |-> message.id]

\* addMessage(message, parentId?): [err, c, node]; node is the id of the
\* returned IdNode.
addMessage(c, message, parentId) ==
    IF message.id = "" THEN [err |-> "IdRequired", c |-> c, node |-> ""]
    ELSE IF message.parts = NoParts THEN [err |-> "PartsRequired", c |-> c, node |-> ""]
    ELSE IF has(c.tree, message.id)
    THEN [err |-> "DuplicateMessage", c |-> c, node |-> ""]
    ELSE LET resolvedParent == IF parentId = None THEN c.lastTopLevelId ELSE parentId[1]
             r1 == treeAppend(c, resolvedParent, message.id, "message")
         IN  IF r1.err # "ok" THEN [err |-> r1.err, c |-> r1.c, node |-> ""]
             ELSE LET r2 == attachParts(r1.c, message.id, message.parts)
                  IN  IF r2.err # "ok" THEN [err |-> r2.err, c |-> r2.c, node |-> ""]
                      ELSE [err |-> "ok",
                            c |-> [r2.c EXCEPT
                                     !.messageIndex =
                                        [k \in DOMAIN @ \cup {message.id} |->
                                           IF k = message.id THEN message ELSE @[k]],
                                     !.lastTopLevelId = message.id],
                            node |-> message.id]

DefaultBranchLabel == "branch"

\* beginBranch without the tree.has(anchorId) test
beginBranch_noAnchorCheck(c, anchorId, branchLabel) ==
    LET label == IF branchLabel = None THEN DefaultBranchLabel ELSE branchLabel[1]
        branchRootId == nextUniqueId(c.tree, anchorId \o "::" \o label)
        r == treeAppend(c, anchorId, branchRootId, "branch")
    IN  IF r.err # "ok" THEN [err |-> r.err, c |-> r.c, branchRootId |-> ""]
        ELSE [err |-> "ok",
              c |-> [r.c EXCEPT !.lastTopLevelId = branchRootId],
              branchRootId |-> branchRootId]

\* beginBranch that appends the branch root under lastTopLevelId
beginBranch_underTail(c, anchorId, branchLabel) ==
    IF ~has(c.tree, anchorId) THEN [err |-> "AnchorNotFound", c |-> c, branchRootId |-> ""]
    ELSE LET label == IF branchLabel = None THEN DefaultBranchLabel ELSE branchLabel[1]
             branchRootId == nextUniqueId(c.tree, anchorId \o "::" \o label)
             r == treeAppend(c, c.lastTopLevelId, branchRootId, "branch")
         IN  IF r.err # "ok" THEN [err |-> r.err, c |-> r.c, branchRootId |-> ""]
             ELSE [err |-> "ok",
                   c |-> [r.c EXCEPT !.lastTopLevelId = branchRootId],
                   branchRootId |-> branchRootId]

\* beginBranch without lastTopLevelId = branchRootId
beginBranch_noTail(c, anchorId, branchLabel) ==
    IF ~has(c.tree, anchorId) THEN [err |-> "AnchorNotFound", c |-> c, branchRootId |-> ""]
    ELSE LET label == IF branchLabel = None THEN DefaultBranchLabel ELSE branchLabel[1]
             branchRootId == nextUniqueId(c.tree, anchorId \o "::" \o label)
             r == treeAppend(c, anchorId, branchRootId, "branch")
         IN  IF r.err # "ok" THEN [err |-> r.err, c |-> r.c, branchRootId |-> ""]
             ELSE [err |-> "ok",
                   c |-> r.c,
                   branchRootId |-> branchRootId]

\* beginBranch that also stores a payload for the branch root
beginBranch_registers(c, anchorId, branchLabel) ==
    IF ~has(c.tree, anchorId) THEN [err |-> "AnchorNotFound", c |-> c, branchRootId |-> ""]
    ELSE LET label == IF branchLabel = None THEN DefaultBranchLabel ELSE branchLabel[1]
             branchRootId == nextUniqueId(c.tree, anchorId \o "::" \o label)
             r == treeAppend(c, anchorId, branchRootId, "branch")
         IN  IF r.err # "ok" THEN [err |-> r.err, c |-> r.c, branchRootId |-> ""]
             ELSE [err |-> "ok",
                   c |-> [r.c EXCEPT !.lastTopLevelId = branchRootId,
                                     !.messageIndex =
                                         [n \in DOMAIN @ \cup {branchRootId} |->
                                            IF n = branchRootId
                                            THEN [id |-> branchRootId, parts |-> <<>>]
                                            ELSE @[n]]],
                   branchRootId |-> branchRootId]

\* beginBranch with lastTopLevelId = label
beginBranch_tailLabel(c, anchorId, branchLabel) ==
    IF ~has(c.tree, anchorId) THEN [err |-> "AnchorNotFound", c |-> c, branchRootId |-> ""]
    ELSE LET label == IF branchLabel = None THEN DefaultBranchLabel ELSE branchLabel[1]
             branchRootId == nextUniqueId(c.tree, anchorId \o "::" \o label)
             r == treeAppend(c, anchorId, branchRootId, "branch")
         IN  IF r.err # "ok" THEN [err |-> r.err, c |-> r.c, branchRootId |-> ""]
             ELSE [err |-> "ok",
                   c |-> [r.c EXCEPT !.lastTopLevelId = label],
                   branchRootId |-> branchRootId]

\* beginBranch(anchorId, branchLabel = "branch"): [err, c, branchRootId]
beginBranch(c, anchorId, branchLabel) ==
    IF ~has(c.tree, anchorId) THEN [err |-> "AnchorNotFound", c |-> c, branchRootId |-> ""]
    ELSE LET label == IF branchLabel = None THEN DefaultBranchLabel ELSE branchLabel[1]
             branchRootId == nextUniqueId(c.tree, anchorId \o "::" \o label)
             r == treeAppend(c, anchorId, branchRootId, "branch")
         IN  IF r.err # "ok" THEN [err |-> r.err, c |-> r.c, branchRootId |-> ""]
             ELSE [err |-> "ok",
                   c |-> [r.c EXCEPT !.lastTopLevelId = branchRootId],
                   branchRootId |-> branchRootId]

\* maybeValidate: both branches return the list it was given.
maybeValidate(messages, validate) ==
    IF ~validate THEN messages ELSE messages

\* collect without the test that the node is a stored message
collect_all(c, id, out) ==
    Append(out, IF id \in DOMAIN c.messageIndex THEN c.messageIndex[id]
                ELSE [id |-> id, parts |-> <<>>])

\* const msg = messageIndex.get(id); if (msg) out.push(msg);
collect(c, id, out) ==
    IF id \in DOMAIN c.messageIndex THEN Append(out, c.messageIndex[id]) ELSE out

\* The walk of serializeFromNodePath without current = next
RECURSIVE walkNodePath_noAdvance(_, _, _, _, _)
walkNodePath_noAdvance(c, nodePath, k, current, out) ==
    IF k > Len(nodePath) THEN [err |-> "ok", value |-> out, badId |-> "", badParent |-> ""]
    ELSE LET id == nodePath[k]
             kids == c.tree.children[current]
             found == \E j \in 1..Len(kids) : kids[j] = id
         IN  IF ~found
             THEN [err |-> "InvalidPath", value |-> <<>>, badId |-> id, badParent |-> current]
             ELSE walkNodePath_noAdvance(c, nodePath, k + 1, current, collect(c, id, out))

\* serializeFromNodePath: [err, value, badId, badParent]
RECURSIVE walkNodePath(_, _, _, _, _)
walkNodePath(c, nodePath, k, current, out) ==
    IF k > Len(nodePath) THEN [err |-> "ok", value |-> out, badId |-> "", badParent |-> ""]
    ELSE LET id == nodePath[k]
             kids == c.tree.children[current]
             found == \E j \in 1..Len(kids) : kids[j] = id
         IN  IF ~found
             THEN [err |-> "InvalidPath", value |-> <<>>, badId |-> id, badParent |-> current]
             ELSE walkNodePath(c, nodePath, k + 1, id, collect(c, id, out))

serializeFromNodePath(c, nodePath, validate) ==
    IF Len(nodePath) = 0
    THEN [err |-> "ok", value |-> maybeValidate(<<>>, validate), badId |-> "", badParent |-> ""]
    ELSE LET r == walkNodePath(c, nodePath, 1, c.tree.root, <<>>)
         IN  IF r.err # "ok" THEN r
             ELSE [r EXCEPT !.value = maybeValidate(r.value, validate)]

Reverse(s) == [i \in 1..Len(s) |-> s[Len(s) + 1 - i]]

\* The parent climb of serializeToNode:
\*   while (cur && cur !== tree.root.id) { pathRev.push(cur); cur = tree.parentIdOf(cur) }
\* fuel counts the iterations still allowed; the loop of the source has no
\* such limit, so running out of fuel stands for a climb that does not end.
\* The parent climb with "while (cur)": it does not stop at the root
RECURSIVE climb_throughRoot(_, _, _, _)
climb_throughRoot(t, cur, pathRev, fuel) ==
    IF cur = None \/ cur = Some("")
    THEN [ends |-> TRUE, pathRev |-> pathRev]
    ELSE IF fuel = 0 THEN [ends |-> FALSE, pathRev |-> pathRev]
    ELSE climb_throughRoot(t, parentIdOf(t, cur[1]), Append(pathRev, cur[1]), fuel - 1)

RECURSIVE climb(_, _, _, _)
climb(t, cur, pathRev, fuel) ==
    IF cur = None \/ cur = Some("") \/ cur = Some(t.root)
    THEN [ends |-> TRUE, pathRev |-> pathRev]
    ELSE IF fuel = 0 THEN [ends |-> FALSE, pathRev |-> pathRev]
    ELSE climb(t, parentIdOf(t, cur[1]), Append(pathRev, cur[1]), fuel - 1)

climbFuel(t) == Cardinality(t.index \cup DOMAIN t.parentOf) + 1

serializeToNode(c, targetNodeId, validate) ==
    IF ~has(c.tree, targetNodeId)
    THEN [err |-> "TargetNotFound", value |-> <<>>, badId |-> targetNodeId, badParent |-> ""]
    ELSE LET up == climb(c.tree, Some(targetNodeId), <<>>, climbFuel(c.tree))
         IN  IF ~up.ends
             THEN [err |-> "NoTermination", value |-> <<>>, badId |-> "", badParent |-> ""]
             ELSE serializeFromNodePath(c, Reverse(up.pathRev), validate)

\* The loop of serializeByMessageIds with "if (msg) out.push(msg)" for the throw
RECURSIVE lookupMessages_skip(_, _, _, _)
lookupMessages_skip(c, messageIds, k, out) ==
    IF k > Len(messageIds) THEN [err |-> "ok", value |-> out, badId |-> "", badParent |-> ""]
    ELSE IF ~(messageIds[k] \in DOMAIN c.messageIndex)
    THEN lookupMessages_skip(c, messageIds, k + 1, out)
    ELSE lookupMessages_skip(c, messageIds, k + 1, Append(out, c.messageIndex[messageIds[k]]))

RECURSIVE lookupMessages(_, _, _, _)
lookupMessages(c, messageIds, k, out) ==
    IF k > Len(messageIds) THEN [err |-> "ok", value |-> out, badId |-> "", badParent |-> ""]
    ELSE IF ~(messageIds[k] \in DOMAIN c.messageIndex)
    THEN [err |-> "MessageNotFound", value |-> <<>>, badId |-> messageIds[k], badParent |-> ""]
    ELSE lookupMessages(c, messageIds, k + 1, Append(out, c.messageIndex[messageIds[k]]))

serializeByMessageIds(c, messageIds, validate) ==
    LET r == lookupMessages(c, messageIds, 1, <<>>)
    IN  IF r.err # "ok" THEN r
        ELSE [r EXCEPT !.value = maybeValidate(r.value, validate)]

\* getNodePath of the adapter: [ends, path]; its own copy of the parent climb.
RECURSIVE nodePathClimb(_, _, _, _)
nodePathClimb(t, cur, pathRev, fuel) ==
    IF cur = None \/ cur = Some("") \/ cur = Some(t.root)
    THEN [ends |-> TRUE, pathRev |-> pathRev]
    ELSE IF fuel = 0 THEN [ends |-> FALSE, pathRev |-> pathRev]
    ELSE nodePathClimb(t, parentIdOf(t, cur[1]), Append(pathRev, cur[1]), fuel - 1)

\* getNodePath without the reverse of pathRev
getNodePath_noReverse(c, targetNodeId) ==
    LET up == nodePathClimb(c.tree, Some(targetNodeId), <<>>, climbFuel(c.tree))
    IN  [ends |-> up.ends, path |-> up.pathRev]

getNodePath(c, targetNodeId) ==
    LET up == nodePathClimb(c.tree, Some(targetNodeId), <<>>, climbFuel(c.tree))
    IN  [ends |-> up.ends, path |-> Reverse(up.pathRev)]

-----------------------------------------------------------------------------
(* The state machine: one ConversationTree instance and its callers *)

Tree == [root |-> root, children |-> children, index |-> index, parentOf |-> parentOf]

Conv ==
    [tree |-> Tree,
     messageIndex |-> messageIndex,
     lastTopLevelId |-> lastTopLevelId,
     appended |-> appended,
     kinds |-> kinds]

Install(c) ==
    /\ root' = c.tree.root
    /\ children' = c.tree.children
    /\ index' = c.tree.index
    /\ parentOf' = c.tree.parentOf
    /\ messageIndex' = c.messageIndex
    /\ lastTopLevelId' = c.lastTopLevelId
    /\ appended' = c.appended
    /\ kinds' = c.kinds

Call(op, id, parts, parentId, label, path, err, retId, retMsgs, retPath) ==
    [op |-> op, id |-> id, parts |-> parts, parentId |-> parentId, label |-> label,
     path |-> path, err |-> err, retId |-> retId, retMsgs |-> retMsgs, retPath |-> retPath]

Created == Call("create", RootId, <<>>, None, None, <<>>, "ok", RootId, <<>>, <<>>)

\* useBranchingChat before its first effect: useChat has no messages, no id
\* is known, the active path is empty and no helper is pending.
\*   messages, known, activeNodePath: the hook's state and refs
\*   dirty: messages changed since the sync effect last ran
\*   pending: the helper call that waits at its await, if any; a helper is
\*   called when no other helper call waits
\*   err: how the most recent sync effect ended
\*   selected, added, replaced: history of the last path selection, of the
\*   messages synced since, and of a wholesale setMessages
UiInit ==
    [messages |-> <<>>, known |-> {}, activeNodePath |-> <<>>, dirty |-> FALSE,
     pending |-> None, err |-> "ok", selected |-> None, added |-> <<>>,
     replaced |-> "no"]

Init ==
    LET c == createConversationTree(RootId)
    IN  /\ root = c.tree.root
        /\ ui = UiInit
        /\ children = c.tree.children
        /\ index = c.tree.index
        /\ parentOf = c.tree.parentOf
        /\ messageIndex = c.messageIndex
        /\ lastTopLevelId = c.lastTopLevelId
        /\ appended = c.appended
        /\ kinds = c.kinds
        /\ history = <<>>
        /\ last = Created

\* What the calls so far were.
LastMut == IF history = <<>> THEN Created ELSE history[Len(history)]

AddCalls == {i \in 1..Len(history) : history[i].op = "addMessage"}

BranchCalls == {i \in 1..Len(history) : history[i].op = "beginBranch"}

TurnIds == {history[i].id : i \in AddCalls}

BranchRoots == {history[i].retId : i \in BranchCalls}

\* Attachment points a caller names: the root, a message, a branch root, an
\* id that is not in the tree; or none.
AttachIds == {RootId} \cup DOMAIN messageIndex \cup BranchRoots \cup {MissingId}

ParentArgs == {None} \cup {Some(p) : p \in AttachIds}

\* last holds the outcome of a call until the caller has taken it; the next
\* call is made after that.
Idle == last = LastMut

\* The record of a mutating call: a failed call is recorded by its operation,
\* the id it was about, whether its parts were an array, and its error.
Outcome(op, id, parts, parentId, label, err, retId) ==
    IF err = "ok" THEN Call(op, id, parts, parentId, label, <<>>, err, retId, <<>>, <<>>)
    ELSE Call(op, id, IF parts = NoParts THEN NoParts ELSE <<>>, None, None, <<>>,
              err, "", <<>>, <<>>)

AddMessage ==
    /\ Idle
    /\ \E message \in Messages, parentId \in ParentArgs :
        /\ Cardinality(index) + 1 + Len(message.parts) <= MaxNodes
        /\ (message.id = RootId \/ message.parts = NoParts)
             => Cardinality(index) <= MaxReadNodes
        /\ \E r \in {addMessage(Conv, message, parentId)} :
            /\ Install(r.c)
            /\ last' = Outcome("addMessage", message.id, message.parts, parentId, None,
                               r.err, r.node)
            /\ history' = IF r.err = "ok" THEN Append(history, last') ELSE history
            /\ ui' = ui

BranchLabelArgs == {None} \cup {Some(l) : l \in Labels}

BeginBranch ==
    /\ Idle
    /\ \E anchorId \in AttachIds, branchLabel \in BranchLabelArgs :
        /\ Cardinality(index) + 1 <= MaxNodes
        /\ \E r \in {beginBranch(Conv, anchorId, branchLabel)} :
            /\ Install(r.c)
            /\ last' = Outcome("beginBranch", anchorId, <<>>, None, branchLabel,
                               r.err, r.branchRootId)
            /\ history' = IF r.err = "ok" THEN Append(history, last') ELSE history
            /\ ui' = ui

RootPaths == {getNodePath(Conv, x).path : x \in index}

\* Node paths a caller passes: the root path of a node, a root path without
\* its first step, a single id (of the tree or not), and a root path with
\* one more id (of the tree or not) after it.
NodePaths ==
    RootPaths \cup {Tail(p) : p \in RootPaths \ {<<>>}}
              \cup {<<x>> : x \in index \cup {MissingId}}
              \cup {Append(p, x) : p \in RootPaths \ {<<>>}, x \in index \cup {MissingId}}

\* Message id lists a caller passes: none, one id (of the tree or not), two
\* registered ids in either order or twice the same, a registered id and an
\* unknown one.
IdLists ==
    {<<>>} \cup {<<x>> : x \in index \cup {MissingId}}
           \cup {<<x, y>> : x \in DOMAIN messageIndex, y \in DOMAIN messageIndex \cup {MissingId}}

\* A read-only call is made while the tree has at most MaxReadNodes nodes;
\* nothing but its record in last changes.
CanRead == Idle /\ Cardinality(index) <= MaxReadNodes

\* A serialization that sets the tail back to the root
ReadOnly_tailReset ==
    /\ lastTopLevelId' = RootId
    /\ UNCHANGED <<root, children, index, parentOf, messageIndex, appended, kinds, history, ui>>

ReadOnly ==
    UNCHANGED <<root, children, index, parentOf, messageIndex, lastTopLevelId, appended, kinds,
                history, ui>>

SerializeFromNodePath ==
    /\ CanRead
    /\ \E nodePath \in NodePaths, validate \in BOOLEAN :
        \E r \in {serializeFromNodePath(Conv, nodePath, validate)} :
            last' = Call("serializeFromNodePath", r.badId, <<>>, None, None, nodePath,
                         r.err, r.badParent, r.value, <<>>)
    /\ ReadOnly

SerializeToNode ==
    /\ CanRead
    /\ \E targetNodeId \in index \cup {MissingId}, validate \in BOOLEAN :
        \E r \in {serializeToNode(Conv, targetNodeId, validate)} :
            last' = Call("serializeToNode", targetNodeId, <<>>, None, None, <<>>,
                         r.err, r.badParent, r.value, <<>>)
    /\ ReadOnly

SerializeByMessageIds ==
    /\ CanRead
    /\ \E messageIds \in IdLists, validate \in BOOLEAN :
        \E r \in {serializeByMessageIds(Conv, messageIds, validate)} :
            last' = Call("serializeByMessageIds", r.badId, <<>>, None, None, messageIds,
                         r.err, "", r.value, <<>>)
    /\ ReadOnly

GetNodePath ==
    /\ CanRead
    /\ \E targetNodeId \in index \cup {MissingId} :
        \E r \in {getNodePath(Conv, targetNodeId)} :
            last' = Call("getNodePath", targetNodeId, <<>>, None, None, <<>>,
                         IF r.ends THEN "ok" ELSE "NoTermination", "", <<>>, r.path)
    /\ ReadOnly

\* The caller takes the outcome of a failed or read-only call.
TakeResult ==
    /\ ~Idle
    /\ last' = LastMut
    /\ ReadOnly

Next ==
    \/ AddMessage
    \/ BeginBranch
    \/ SerializeFromNodePath
    \/ SerializeToNode
    \/ SerializeByMessageIds
    \/ GetNodePath
    \/ TakeResult

Spec == Init /\ [][Next]_vars

-----------------------------------------------------------------------------
(* Properties *)

\* The places of the tree a node occupies: <<p, k>> is the k-th child of p.
ChildSlots == UNION {{<<p, k>> : k \in 1..Len(children[p])} : p \in DOMAIN children}

IdAt(slot) == children[slot[1]][slot[2]]

RegisteredTurns == {[id |-> history[i].id, parts |-> history[i].parts] : i \in AddCalls}

IsPart(id) == <<id, "part">> \in kinds

IsBranchRoot(id) == <<id, "branch">> \in kinds

Ids(messages) == [k \in 1..Len(messages) |-> messages[k].id]

InSeq(x, s) == \E k \in 1..Len(s) : s[k] = x

\* The root path of a node, as the adapter computes it.
PathOf(X) == getNodePath(Conv, X).path

\* C1. Uniqueness: the root is nobody's child and no two places of the tree
\* hold the same id, whatever calls (successful or failed) were made.
Uniqueness ==
    /\ \A s \in ChildSlots : IdAt(s) # RootId
    /\ \A s1, s2 \in ChildSlots : s1 # s2 => IdAt(s1) # IdAt(s2)

\* C1 witness: a message id that equals a derived part id is in the tree and
\* the part derived later got the suffixed id.
UniquenessWitness ==
    /\ "U1::part-0:text" \in TurnIds
    /\ IsPart("U1::part-0:text-1")
    /\ "U1::part-0:text-1" \in index

\* C2. Order preservation: the children of every node are the ids appended
\* under it by the successful appendChild calls, in call order.
OrderPreservation ==
    /\ DOMAIN children = DOMAIN appended
    /\ \A n \in DOMAIN children : children[n] = appended[n]

\* C2 witness: a turn has a fragment child and a later child of another kind.
OrderPreservationWitness ==
    \E n \in TurnIds :
        /\ Len(children[n]) >= 2
        /\ IsPart(children[n][1])
        /\ ~IsPart(children[n][Len(children[n])])

\* The two ways to serialize up to X agree in the tree as it is.
RoundTripAgrees(X) ==
    LET p == getNodePath(Conv, X)
        a == serializeFromNodePath(Conv, p.path, FALSE)
        b == serializeToNode(Conv, X, FALSE)
    IN  /\ p.ends
        /\ a.err = "ok"
        /\ b.err = "ok"
        /\ a.value = b.value

\* C3. Path round-trip: always, for every node X of the tree,
\* serializeFromNodePath of getNodePath(X) succeeds and returns what
\* serializeToNode(X) returns.
PathRoundTrip == [](\A X \in index : RoundTripAgrees(X))

\* C3 witness: serializeToNode of a branch root under a turn has returned
\* that turn, and the node path of the branch root has two steps.
PathRoundTripWitness ==
    /\ last.op = "serializeToNode"
    /\ last.err = "ok"
    /\ IsBranchRoot(last.id)
    /\ Len(last.retMsgs) = 1
    /\ Len(getNodePath(Conv, last.id).path) = 2

\* An element a serialization may return: the payload of a successful
\* addMessage call whose id names no part node and no branch root.
IsTurnPayload(e) == e \in RegisteredTurns /\ ~IsPart(e.id) /\ ~IsBranchRoot(e.id)

AllTurnPayloads(r) == r.err = "ok" => \A k \in 1..Len(r.value) : IsTurnPayload(r.value[k])

\* Every serialization of the tree as it is returns turn payloads only: by
\* node path (the root path of a node, that path without its first step, a
\* single id), by target node and by message ids (one id, two ids); and so
\* did the serialization call just made. A call is made when the result of
\* the call before it was taken, and until then the tree is the one that
\* call left: the serializations of the tree are looked at in these states.
OnlyTurnPayloads ==
    /\ Idle =>
         /\ \A X \in index :
              /\ LET nodePath == PathOf(X)
                 IN  /\ AllTurnPayloads(serializeFromNodePath(Conv, nodePath, FALSE))
                     /\ nodePath # <<>>
                          => AllTurnPayloads(serializeFromNodePath(Conv, Tail(nodePath),
                                                                  FALSE))
              /\ AllTurnPayloads(serializeFromNodePath(Conv, <<X>>, FALSE))
              /\ AllTurnPayloads(serializeToNode(Conv, X, FALSE))
              /\ AllTurnPayloads(serializeByMessageIds(Conv, <<X>>, FALSE))
         /\ \A x \in DOMAIN messageIndex, y \in DOMAIN messageIndex :
              AllTurnPayloads(serializeByMessageIds(Conv, <<x, y>>, FALSE))
    /\ last.op \in {"serializeFromNodePath", "serializeToNode", "serializeByMessageIds"}
         => \A k \in 1..Len(last.retMsgs) : IsTurnPayload(last.retMsgs[k])

\* C4. Structural nodes are invisible: always, every element a serialization
\* returns is the payload of a successful addMessage call and its id is not
\* the id of a part node or of a branch root.
StructuralNodesInvisible == []OnlyTurnPayloads

\* C4 witness: serializeFromNodePath was given a path through a branch root
\* and returned the turn below it, and nothing for the branch root.
StructuralNodesInvisibleWitness ==
    /\ last.op = "serializeFromNodePath"
    /\ last.err = "ok"
    /\ \E k \in 1..Len(last.path) : IsBranchRoot(last.path[k])
    /\ Len(last.retMsgs) >= 1
    /\ Len(last.retMsgs) < Len(last.path)

\* X lies below a child of A other than B.
UnderOtherChild(X, A, B) ==
    LET px == PathOf(X)
    IN  IF A = RootId THEN Len(px) >= 1 /\ px[1] # B
        ELSE \E k \in 1..(Len(px) - 1) : px[k] = A /\ px[k + 1] # B

\* C5. Branch isolation: a turn that is a child of the branch root B made by
\* beginBranch(A) is on the root path, and in the serializeToNode output, of
\* no turn below another child of A; and every turn still has the parent it
\* was appended under.
BranchIsolation ==
    /\ \A i \in BranchCalls :
         \A m \in TurnIds, X \in TurnIds :
            (/\ history[i].retId \in DOMAIN children
             /\ InSeq(m, children[history[i].retId])
             /\ UnderOtherChild(X, history[i].id, history[i].retId))
            => /\ ~InSeq(m, PathOf(X))
               /\ ~InSeq(m, Ids(serializeToNode(Conv, X, FALSE).value))
    /\ \A t \in TurnIds :
         \A p \in DOMAIN appended :
            InSeq(t, appended[p])
            => /\ parentIdOf(Tree, t) = Some(p)
               /\ \A q \in DOMAIN children : InSeq(t, children[q]) <=> q = p

\* C5 witness: a turn was inserted under the branch root of an anchor that
\* has an earlier continuation turn.
BranchIsolationWitness ==
    \E i \in BranchCalls :
        \E m \in TurnIds, X \in TurnIds :
            /\ InSeq(m, children[history[i].retId])
            /\ history[i].id \in TurnIds
            /\ UnderOtherChild(X, history[i].id, history[i].retId)

PartsOfTurn(t) == history[CHOOSE i \in AddCalls : history[i].id = t].parts

\* The ids nextUniqueId can give to part k (1-based) of turn t.
OwnPartIds(t, k) ==
    LET base == partBase(t, k - 1, PartsOfTurn(t)[k])
    IN  {base} \cup {base \o "-" \o ToString(j) : j \in 1..Cardinality(index)}

OnlyOwnParts(t) ==
    /\ Len(children[t]) = Len(PartsOfTurn(t))
    /\ \A k \in 1..Len(children[t]) :
         IsPart(children[t][k]) /\ children[t][k] \in OwnPartIds(t, k)

\* The last two calls of the history are addMessage calls with the same
\* branch root as explicit parent.
TwoUnderSameBranchRoot ==
    /\ Len(history) >= 2
    /\ history[Len(history)].op = "addMessage"
    /\ history[Len(history) - 1].op = "addMessage"
    /\ history[Len(history)].parentId # None
    /\ history[Len(history)].parentId = history[Len(history) - 1].parentId
    /\ IsBranchRoot(history[Len(history)].parentId[1])

BranchThenTwoUnderIt ==
    /\ Len(history) >= 3
    /\ TwoUnderSameBranchRoot
    /\ history[Len(history) - 2].op = "beginBranch"
    /\ history[Len(history)].parentId = Some(history[Len(history) - 2].retId)

\* C7. Linear chaining inside a branch: after beginBranch returned B and
\* addMessage(m1, B), addMessage(m2, B) followed, B has the one child m1 and
\* m2 is the child of m1 after m1's part nodes.
LinearChainingInBranch ==
    BranchThenTwoUnderIt
    => LET B == history[Len(history) - 2].retId
           m1 == history[Len(history) - 1].id
           m2 == history[Len(history)].id
       IN  /\ children[B] = <<m1>>
           /\ Len(children[m1]) = Len(PartsOfTurn(m1)) + 1
           /\ children[m1][Len(children[m1])] = m2
           /\ \A k \in 1..Len(PartsOfTurn(m1)) : IsPart(children[m1][k])

\* C8. Tail advance: after a successful addMessage lastTopLevelId is the new
\* message id, whether or not a parentId was given; an addMessage without
\* parentId that follows an addMessage makes the new turn a child of the turn
\* added before it.
TailAdvance ==
    /\ LastMut.op = "addMessage" => lastTopLevelId = LastMut.id
    /\ \A i \in AddCalls :
         (i - 1 \in AddCalls /\ history[i].parentId = None)
         => /\ parentIdOf(Tree, history[i].id) = Some(history[i - 1].id)
            /\ InSeq(history[i].id, children[history[i - 1].id])

\* C8 witness: an addMessage without parentId followed an addMessage whose
\* parentId named a node other than the tail.
TailAdvanceWitness ==
    \E i \in AddCalls :
        /\ i - 1 \in AddCalls
        /\ i - 2 \in AddCalls
        /\ history[i].parentId = None
        /\ history[i - 1].parentId = Some(RootId)

\* After a beginBranch call the branch root sits under its anchor; right after
\* it the branch root is the last child and the tail; a following addMessage
\* without parentId lands under it.
BranchRootPlaced ==
    \A i \in BranchCalls :
        /\ IsBranchRoot(history[i].retId)
        /\ parentIdOf(Tree, history[i].retId) = Some(history[i].id)
        /\ InSeq(history[i].retId, children[history[i].id])
        /\ i = Len(history)
             => /\ lastTopLevelId = history[i].retId
                /\ children[history[i].id][Len(children[history[i].id])] = history[i].retId
                /\ children[history[i].retId] = <<>>
        /\ (i + 1 \in AddCalls /\ history[i + 1].parentId = None)
             => /\ parentIdOf(Tree, history[i + 1].id) = Some(history[i].retId)
                /\ InSeq(history[i + 1].id, children[history[i].retId])

\* What a successful beginBranch step changes.
BranchStep ==
    (Len(history') = Len(history) + 1 /\ last'.op = "beginBranch" /\ last'.err = "ok")
    => /\ last'.retId \notin index
       /\ index' = index \cup {last'.retId}
       /\ DOMAIN children' = DOMAIN children \cup {last'.retId}
       /\ children'[last'.id] = Append(children[last'.id], last'.retId)
       /\ \A n \in DOMAIN children \ {last'.id} : children'[n] = children[n]
       /\ lastTopLevelId' = last'.retId
       /\ messageIndex' = messageIndex

\* C9. beginBranch(anchor, label) on an existing anchor adds exactly one
\* node, the branch root, as the new last child of the anchor, returns its
\* id and makes it the tail; an addMessage without parentId that follows
\* makes the new turn a child of that branch root.
BeginBranchEffect == []BranchRootPlaced /\ [][BranchStep]_vars

\* C9 witness: beginBranch was called on an anchor that had a child already
\* and was not the tail, and an addMessage without parentId followed.
BeginBranchEffectWitness ==
    \E i \in BranchCalls :
        /\ i - 1 \in AddCalls
        /\ history[i - 1].id # history[i].id
        /\ children[history[i].id][1] # history[i].retId
        /\ i + 1 \in AddCalls
        /\ history[i + 1].parentId = None

\* Every call so far was an addMessage without parentId.
OnlyDefaultAdds ==
    \A i \in 1..Len(history) : history[i].op = "addMessage" /\ history[i].parentId = None

\* C10. Linear growth: when every call was an addMessage without parentId,
\* the root path of the k-th turn is the first k turns in call order and
\* serializeToNode of it returns their payloads in that order.
LinearGrowth ==
    OnlyDefaultAdds
    => \A k \in 1..Len(history) :
          LET r == serializeToNode(Conv, history[k].id, FALSE)
          IN  /\ PathOf(history[k].id) = [j \in 1..k |-> history[j].id]
              /\ r.err = "ok"
              /\ r.value = [j \in 1..k |-> [id |-> history[j].id, parts |-> history[j].parts]]

\* C10 witness: three turns were added without parentId, one of them with a part.
LinearGrowthWitness ==
    /\ OnlyDefaultAdds
    /\ Len(history) = 3
    /\ \E k \in 1..3 : Len(history[k].parts) >= 1

\* The fields of the program: the tree, the payload registry and the tail.
ProgramUnchanged ==
    UNCHANGED <<root, children, index, parentOf, messageIndex, lastTopLevelId>>

\* The step is a call of op: calls are made when the previous outcome was
\* taken, and every call leaves a new record in last.
CallStep(op) == Idle /\ last' # last /\ last'.op = op

\* An addMessage call whose message has a parts array and an id that is in
\* the tree throws the duplicate message error and changes no field.
DuplicateTurnStep ==
    (CallStep("addMessage") /\ last'.parts # NoParts /\ last'.id \in index)
    => /\ last'.err = "DuplicateMessage"
       /\ ProgramUnchanged
       /\ history' = history

\* C11. addMessage with a message that has a parts array and an id that is
\* already in the tree (the root, a message, a part node or a branch root)
\* fails with the duplicate message error and leaves the tree, messageIndex
\* and lastTopLevelId as they were.
DuplicateTurnRejected == [][DuplicateTurnStep]_vars

\* C11 witness: addMessage was refused for an id that names a part node, in a
\* tree that also holds a message.
DuplicateTurnRejectedWitness ==
    /\ last.op = "addMessage"
    /\ last.err = "DuplicateMessage"
    /\ IsPart(last.id)

\* addMessage was refused for the id of the root.
DuplicateOfRootSeen ==
    last.op = "addMessage" /\ last.err = "DuplicateMessage" /\ last.id = RootId

\* addMessage was refused for the id of a branch root.
DuplicateOfBranchRootSeen ==
    last.op = "addMessage" /\ last.err = "DuplicateMessage" /\ IsBranchRoot(last.id)

\* A beginBranch call whose anchor is not in the tree throws the anchor
\* error and changes no field.
MissingAnchorStep ==
    (CallStep("beginBranch") /\ last'.id \notin index)
    => /\ last'.err = "AnchorNotFound"
       /\ ProgramUnchanged
       /\ history' = history

\* C12. beginBranch with an anchor id that is not in the tree fails with the
\* anchor-not-found error, adds no node and leaves lastTopLevelId as it was.
MissingAnchorRejected == [][MissingAnchorStep]_vars

\* C12 witness: beginBranch was refused for an unknown anchor in a tree whose
\* tail is a message.
MissingAnchorRejectedWitness ==
    /\ last.op = "beginBranch"
    /\ last.err = "AnchorNotFound"
    /\ last.id \notin index
    /\ lastTopLevelId \in TurnIds

\* A well-formed message: it has an id and an array of parts.
WellFormed(message) == message.id # "" /\ message.parts # NoParts

\* An addMessage call with a new, well-formed message under a parent id that
\* is not in the tree throws the parent error and returns the state as it was.
MissingParentRefused ==
    \A message \in Messages :
        (WellFormed(message) /\ message.id \notin index)
        => LET r == addMessage(Conv, message, Some(MissingId))
           IN  r.err = "ParentNotFound" /\ r.c = Conv

\* A successful addMessage call did all of its work: the message node is the
\* new last child of its parent, it has one part node per part and no other
\* child, exactly these nodes are new, the payload is registered and the
\* tail is the message; a failed call changed nothing.
AllOrNothingStep ==
    CallStep("addMessage")
    => IF last'.err = "ok"
       THEN LET id == last'.id
                parent == IF last'.parentId = None THEN lastTopLevelId ELSE last'.parentId[1]
            IN  /\ id \notin index
                /\ children'[parent] = Append(children[parent], id)
                /\ Len(children'[id]) = Len(last'.parts)
                /\ index' = index \cup {id} \cup {children'[id][k] : k \in 1..Len(children'[id])}
                /\ Cardinality(index') = Cardinality(index) + 1 + Len(last'.parts)
                /\ \A n \in DOMAIN children \ {parent} : children'[n] = children[n]
                /\ messageIndex' = [k \in DOMAIN messageIndex \cup {id} |->
                                      IF k = id THEN [id |-> id, parts |-> last'.parts]
                                      ELSE messageIndex[k]]
                /\ lastTopLevelId' = id
                /\ history' = Append(history, last')
       ELSE ProgramUnchanged /\ history' = history

\* C13. No partial mutation: an addMessage call either does everything
\* (message node, one part node per part, payload registered, tail advanced)
\* or fails and leaves the tree, messageIndex and lastTopLevelId as they
\* were; with a parentId that is not in the tree it fails with the
\* parent-not-found error and adds neither a node nor a payload.
NoPartialMutation == []MissingParentRefused /\ [][AllOrNothingStep]_vars

\* C13 witness: addMessage was refused for an unknown parent in a tree that
\* holds a message with a part.
NoPartialMutationWitness ==
    /\ last.op = "addMessage"
    /\ last.err = "ParentNotFound"
    /\ \E t \in TurnIds : Len(children[t]) >= 1

ChildrenOf(n) == IF n \in DOMAIN children THEN children[n] ELSE <<>>

\* The node step k of a path has to be a child of: the root for the first
\* step, the id of the step before for the others.
ExpectedParent(path, k) == IF k = 1 THEN RootId ELSE path[k - 1]

\* The steps of a path that are not a child of their expected parent.
BadSteps(path) ==
    {k \in 1..Len(path) : ~InSeq(path[k], ChildrenOf(ExpectedParent(path, k)))}

IsTurnId(id) == id \in TurnIds

\* The payloads, in path order, of the ids of a path that successful
\* addMessage calls registered.
TurnPayloadsAlong(path) ==
    LET turns == SelectSeq(path, IsTurnId)
    IN  [k \in 1..Len(turns) |-> [id |-> turns[k], parts |-> PartsOfTurn(turns[k])]]

\* C14. A serializeFromNodePath call succeeds exactly when its path is a
\* legal walk from the root; otherwise it fails with the invalid-path error
\* naming the id of the first step that is not a child of its expected parent
\* and that parent. On success it returns, in path order, the payloads of
\* the path's registered turns; the empty path gives the empty list.
SerializeFromNodePathContract ==
    last.op = "serializeFromNodePath"
    => LET bad == BadSteps(last.path)
       IN  /\ last.err = "ok" <=> bad = {}
           /\ last.err = "ok" => last.retMsgs = TurnPayloadsAlong(last.path)
           /\ last.path = <<>> => last.err = "ok" /\ last.retMsgs = <<>>
           /\ last.err # "ok"
                => /\ last.err = "InvalidPath"
                   /\ \E k \in bad :
                        /\ \A j \in bad : k <= j
                        /\ last.id = last.path[k]
                        /\ last.retId = ExpectedParent(last.path, k)

\* C14 witness: a call failed at the second step of its path, after a first
\* step that is a child of the root.
SerializeFromNodePathContractWitness ==
    /\ last.op = "serializeFromNodePath"
    /\ last.err = "InvalidPath"
    /\ Len(last.path) = 2
    /\ BadSteps(last.path) = {2}

\* A call succeeded on a path of two steps and returned one payload.
StructuralStepSkipped ==
    /\ last.op = "serializeFromNodePath"
    /\ last.err = "ok"
    /\ Len(last.path) = 2
    /\ Len(last.retMsgs) = 1

\* The positions of an id list whose id no successful addMessage registered.
Unregistered(messageIds) == {k \in 1..Len(messageIds) : messageIds[k] \notin TurnIds}

\* C15. A serializeByMessageIds call looks at no tree structure: when every
\* id it is given was registered by addMessage it returns their payloads in
\* the order given (repeated ids and ids of different branches included);
\* otherwise it fails with the message-not-found error for the first id
\* without a payload, which may be the id of a part node, a branch root or
\* the root.
SerializeByMessageIdsContract ==
    last.op = "serializeByMessageIds"
    => LET bad == Unregistered(last.path)
       IN  IF bad = {}
           THEN /\ last.err = "ok"
                /\ last.retMsgs = [k \in 1..Len(last.path) |->
                                     [id |-> last.path[k], parts |-> PartsOfTurn(last.path[k])]]
           ELSE /\ last.err = "MessageNotFound"
                /\ \E k \in bad : (\A j \in bad : k <= j) /\ last.id = last.path[k]

\* C15 witness: a call returned two payloads for two sibling turns, given
\* later one first.
SerializeByMessageIdsContractWitness ==
    /\ last.op = "serializeByMessageIds"
    /\ last.err = "ok"
    /\ Len(last.path) = 2
    /\ parentOf[last.path[1]] = parentOf[last.path[2]]
    /\ \E i, j \in AddCalls :
         i < j /\ history[j].id = last.path[1] /\ history[i].id = last.path[2]

\* A call failed for the id of a part node or of a branch root.
StructuralIdNotFound ==
    /\ last.op = "serializeByMessageIds"
    /\ last.err = "MessageNotFound"
    /\ IsPart(last.id) \/ IsBranchRoot(last.id)

\* A call returned the same payload twice.
RepeatedIdServed ==
    /\ last.op = "serializeByMessageIds"
    /\ last.err = "ok"
    /\ Len(last.path) = 2
    /\ last.path[1] = last.path[2]

\* C16. Path derivation fails with a node-not-found error whenever the
\* target id is not in the tree: a serializeToNode call and a getNodePath
\* call for an unknown id end with that error and return no list and no path.
UnknownTargetRejected ==
    (last.op \in {"serializeToNode", "getNodePath"} /\ last.id \notin index)
    => /\ last.err = "TargetNotFound"
       /\ last.retMsgs = <<>>
       /\ last.retPath = <<>>

\* The half of C16 that is about serializeToNode.
SerializeToNodeUnknownTarget ==
    (last.op = "serializeToNode" /\ last.id \notin index)
    => last.err = "TargetNotFound" /\ last.retMsgs = <<>>

\* What getNodePath returns for an id that is not in the tree: the path
\* made of that id alone, and no error.
GetNodePathUnknownTarget ==
    (last.op = "getNodePath" /\ last.id \notin index)
    => last.err = "ok" /\ last.retPath = <<last.id>>

\* Both calls were made for an id that is not in a tree of some messages.
UnknownTargetAsked ==
    /\ last.op \in {"serializeToNode", "getNodePath"}
    /\ last.id \notin index
    /\ TurnIds # {}

\* id is what the collision rule gives for base when the ids of taken are in
\* the tree: base itself when it is free, else base-k for the least k >= 1
\* with base-k free.
IsDerivedId(id, base, taken) ==
    IF base \notin taken THEN id = base
    ELSE \E k \in 1..Cardinality(taken) :
            /\ id = base \o "-" \o ToString(k)
            /\ id \notin taken
            /\ \A j \in 1..(k - 1) : (base \o "-" \o ToString(j)) \in taken

\* The id of the branch root a successful beginBranch call has made.
BranchIdStep ==
    (CallStep("beginBranch") /\ last'.err = "ok")
    => LET label == IF last'.label = None THEN DefaultBranchLabel ELSE last'.label[1]
       IN  IsDerivedId(last'.retId, last'.id \o "::" \o label, index)

\* The ids of the part nodes a successful addMessage call has made: part i
\* is derived when the message node and the parts before it are in the tree.
PartIdStep ==
    (CallStep("addMessage") /\ last'.err = "ok")
    => \A i \in 1..Len(last'.parts) :
          IsDerivedId(children'[last'.id][i],
                      partBase(last'.id, i - 1, last'.parts[i]),
                      index \cup {last'.id} \cup {children'[last'.id][j] : j \in 1..(i - 1)})

\* No call has ended with the duplicate-id error of appendChild.
NoDuplicateIdError == last.err # "DuplicateId"

\* C17. Collision resolution: the id of a part node or branch root is its
\* derived base id when that id is free and otherwise base-k for the least
\* k >= 1 with base-k not in the tree; no call fails with the duplicate-id
\* error; the id is fixed by the tree and the arguments of the call.
CollisionResolution == []NoDuplicateIdError /\ [][BranchIdStep /\ PartIdStep]_vars

\* C17 witness: the base id and its first suffix were taken and a node got
\* the suffix 2.
CollisionResolutionWitness ==
    /\ "U1::part-0:text" \in index
    /\ "U1::part-0:text-1" \in index
    /\ "U1::part-0:text-2" \in index

\* The children of turn t: one part node per part of its message, first and
\* in part order, and after them only turns and branch roots.
ComposedTurn(t) ==
    LET k == Len(PartsOfTurn(t))
    IN  /\ Len(children[t]) >= k
        /\ Cardinality({i \in 1..Len(children[t]) : IsPart(children[t][i])}) = k
        /\ \A i \in 1..Len(children[t]) :
             IF i <= k
             THEN IsPart(children[t][i]) /\ children[t][i] \in OwnPartIds(t, i)
             ELSE /\ ~IsPart(children[t][i])
                  /\ children[t][i] \in TurnIds \/ IsBranchRoot(children[t][i])

PayloadKeys == DOMAIN messageIndex

\* C19. Payload registry: in every reachable state the keys of the payload
\* map are exactly the message ids of the successful addMessage calls, every
\* key is a node of the tree, and neither the root nor a part node nor a
\* branch root is a key.
PayloadRegistry ==
    /\ PayloadKeys = TurnIds
    /\ PayloadKeys \subseteq index
    /\ RootId \notin PayloadKeys
    /\ \A id \in PayloadKeys : ~IsPart(id) /\ ~IsBranchRoot(id)
    /\ \A id \in PayloadKeys : messageIndex[id] = [id |-> id, parts |-> PartsOfTurn(id)]

\* C19 witness: the tree holds a registered turn, a part node and a branch
\* root, and calls for an id already in the tree and for a missing parent
\* have failed before.
PayloadRegistryWitness ==
    /\ \E t \in PayloadKeys : Len(children[t]) >= 2
    /\ \E p \in index : IsPart(p)
    /\ \E b \in index : IsBranchRoot(b)
    /\ last.op = "addMessage" /\ last.err \in {"DuplicateMessage", "ParentNotFound"}

-----------------------------------------------------------------------------
(* IdTree used on its own: new IdTree(rootId), then appendChild calls        *)

\* Ids a caller of appendChild names besides the root.
NodeIds == {"n1", "n2", "n3", "n4"}

\* tree.appendChild(parentId, childId) on the tree built so far.
AppendChild ==
    /\ Idle
    /\ \E parentId \in index \cup {MissingId}, childId \in NodeIds \cup {RootId} :
          LET r == appendChild(Tree, parentId, childId)
          IN  /\ r.err = "ok" => Cardinality(index) < MaxNodes
              /\ children' = r.t.children
              /\ index' = r.t.index
              /\ parentOf' = r.t.parentOf
              /\ last' = Call("appendChild", childId, <<>>, Some(parentId), None, <<>>,
                              r.err, IF r.err = "ok" THEN childId ELSE "", <<>>, <<>>)
    /\ UNCHANGED <<root, messageIndex, lastTopLevelId, appended, kinds, history, ui>>

NextTree ==
    \/ AppendChild
    \/ TakeResult

\* Root ids a caller constructs a tree with: the constructors take any string.
RootIds == {RootId, ""}

\* The state after new IdTree(rootId) / createConversationTree(rootId).
InitTree ==
    \E rootId \in RootIds :
        LET c == createConversationTree(rootId)
        IN  /\ root = c.tree.root
            /\ ui = UiInit
            /\ children = c.tree.children
            /\ index = c.tree.index
            /\ parentOf = c.tree.parentOf
            /\ messageIndex = c.messageIndex
            /\ lastTopLevelId = c.lastTopLevelId
            /\ appended = c.appended
            /\ kinds = c.kinds
            /\ history = <<>>
            /\ last = Created

SpecTree == InitTree /\ [][NextTree]_vars

\* get root(): the id of the root node.
RootOf == root

\* The tree after the step.
TreeAfter == [root |-> root', children |-> children', index |-> index', parentOf |-> parentOf']

\* What has, find, parentIdOf and the child sequences show is what they
\* showed before the step.
TreeLooksUnchanged ==
    /\ \A id \in NodeIds \cup RootIds \cup {MissingId} :
          /\ has(TreeAfter, id) = has(Tree, id)
          /\ find(TreeAfter, id) = find(Tree, id)
          /\ parentIdOf(TreeAfter, id) = parentIdOf(Tree, id)
    /\ children' = children

AppendChildStep ==
    CallStep("appendChild")
    => LET parentId == last'.parentId[1]
           childId == last'.id
       IN  IF parentId \notin index
           THEN last'.err = "ParentNotFound" /\ TreeLooksUnchanged
           ELSE IF childId \in index
           THEN last'.err = "DuplicateId" /\ TreeLooksUnchanged
           ELSE /\ last'.err = "ok"
                /\ children'[parentId] = Append(children[parentId], childId)
                /\ has(TreeAfter, childId)
                /\ parentIdOf(TreeAfter, childId) = Some(parentId)

\* C20. IdTree.appendChild(parentId, childId) fails with parent-not-found
\* when parentId is absent and with duplicate-id when childId is anywhere in
\* the tree, the root id included; a failed call leaves has, find,
\* parentIdOf and every child sequence as they were; a successful call
\* makes the child the last child of the parent, has(childId) true and
\* parentIdOf(childId) the parent.
AppendChildContract == [][AppendChildStep]_vars

\* C20 witness: a call failed with duplicate-id for a child id that is in
\* the tree but not among the children of the parent the call named.
AppendChildContractWitness ==
    /\ last.op = "appendChild"
    /\ last.err = "DuplicateId"
    /\ last.id # RootId
    /\ ~InSeq(last.id, children[last.parentId[1]])
    /\ Len(children[last.parentId[1]]) >= 1

\* The root id was refused as a child id.
RootIdRefusedAsChild ==
    last.op = "appendChild" /\ last.err = "DuplicateId" /\ last.id = RootId

\* A call named a parent the tree does not hold.
AbsentParentRefused ==
    last.op = "appendChild" /\ last.err = "ParentNotFound" /\ Cardinality(index) >= 3

\* A call added a second child to a node below the root.
ChildAppendedLast ==
    /\ last.op = "appendChild" /\ last.err = "ok"
    /\ last.parentId[1] # RootId
    /\ Len(children[last.parentId[1]]) >= 2

\* C21. Creating a tree with the empty string as root id fails: no tree
\* whose root id is the empty string is ever constructed.
EmptyRootRefused == RootOf # ""

\* Whatever string the constructor is given becomes the root: the tree
\* starts as that one node, without a parent, and keeps it as its root.
AnyRootAccepted ==
    /\ RootOf \in RootIds
    /\ lastTopLevelId = RootOf
    /\ parentIdOf(Tree, RootOf) = None

\* A tree whose root is the empty string has grown by appendChild calls.
EmptyRootTreeGrown == RootOf = "" /\ Cardinality(index) >= 3

SerializeOps == {"serializeFromNodePath", "serializeToNode", "serializeByMessageIds"}

\* The conversation after the step.
ConvAfter ==
    [tree |-> [root |-> root', children |-> children', index |-> index',
               parentOf |-> parentOf'],
     messageIndex |-> messageIndex',
     lastTopLevelId |-> lastTopLevelId',
     appended |-> appended',
     kinds |-> kinds']

\* A serialize call, successful or failed, assigns no field, and an
\* addMessage without parent argument made next does what it would have
\* done without the serialize call.
SerializeStep ==
    (Idle /\ last' # last /\ last'.op \in SerializeOps)
    => /\ ProgramUnchanged
       /\ \A message \in Messages :
             addMessage(ConvAfter, message, None) = addMessage(Conv, message, None)

\* C22. Serialization is read-only: serializeFromNodePath, serializeToNode
\* and serializeByMessageIds, whether they succeed or fail, leave children,
\* index, parentOf, messageIndex and lastTopLevelId unchanged, so that a
\* following addMessage without parent attaches where it would have without
\* the serialize call.
SerializationReadOnly == [][SerializeStep]_vars

\* C22 witness: a serialize call has failed on a tree whose tail is a branch
\* root, so that the next default addMessage goes under that branch root.
SerializationReadOnlyWitness ==
    /\ last.op \in SerializeOps
    /\ last.err # "ok"
    /\ IsBranchRoot(lastTopLevelId)

\* A serialize call has returned messages while the tail is a message.
SerializeSucceededSeen ==
    /\ last.op \in SerializeOps
    /\ last.err = "ok"
    /\ Len(last.retMsgs) >= 1
    /\ lastTopLevelId \in TurnIds

IsPrefix(s, t) == Len(s) <= Len(t) /\ \A k \in 1..Len(s) : t[k] = s[k]

\* One step keeps every node, every parent link and every child sequence as
\* a prefix, and with them the root path of every node.
AppendOnlyStep ==
    \/ UNCHANGED <<children, index, parentOf>>
    \/ /\ index \subseteq index'
       /\ \A n \in DOMAIN parentOf : n \in DOMAIN parentOf' /\ parentOf'[n] = parentOf[n]
       /\ \A n \in index : IsPrefix(children[n], children'[n])
       /\ \A n \in index : getNodePath(ConvAfter, n) = getNodePath(Conv, n)

\* C23. Append-only: a node in the tree stays in the tree in every later
\* state, its parent never changes, the child sequence of a node in a later
\* state has its child sequence in any earlier state as a prefix, and so the
\* root path of an existing node is the same in all later states.
AppendOnly == [][AppendOnlyStep]_vars

\* C23 witness: the last call added a node under a parent that had a child
\* before, in a tree with a node two levels below the root.
AppendOnlyWitness ==
    /\ last.op \in {"addMessage", "beginBranch"}
    /\ last.err = "ok"
    /\ last.retId \in index
    /\ Len(children[parentOf[last.retId]]) >= 2
    /\ \E n \in DOMAIN parentOf : parentOf[n] \in DOMAIN parentOf

\* The nodes met when descending from the nodes of frontier through the
\* child sequences.
RECURSIVE ReachFrom(_, _)
ReachFrom(frontier, seen) ==
    IF frontier = {} THEN seen
    ELSE LET next == UNION {{children[n][k] : k \in 1..Len(children[n])} :
                               n \in frontier \cap DOMAIN children} \ seen
         IN  ReachFrom(next, seen \cup next)

\* How often c occurs in the child sequence of p.
Occurrences(c, p) == Cardinality({k \in 1..Len(children[p]) : children[p][k] = c})

\* Ids a caller may ask the tree about.
AskedIds == NodeIds \cup RootIds \cup {MissingId}

\* C25. Identifier-tree consistency: in every reachable state each id of the
\* index is that of exactly one node reachable from the root;
\* parentIdOf(c) = p exactly when c occurs, exactly once, in the child
\* sequence of p; the root is in no child sequence; parentIdOf is null for
\* the root and for every id that is not in the tree.
IdTreeConsistency ==
    /\ DOMAIN children = index
    /\ ReachFrom({root}, {root}) = index
    /\ \A id \in index :
          Cardinality({s \in ChildSlots : IdAt(s) = id}) = (IF id = root THEN 0 ELSE 1)
    /\ \A c \in AskedIds, p \in index :
          /\ Occurrences(c, p) <= 1
          /\ parentIdOf(Tree, c) = Some(p) <=> Occurrences(c, p) = 1
    /\ parentIdOf(Tree, root) = None
    /\ \A id \in AskedIds \ index : parentIdOf(Tree, id) = None

\* C25 witness: appendChild calls have built a tree with a node two levels
\* below the root and a node with two children.
IdTreeConsistencyWitness ==
    /\ last.op = "appendChild"
    /\ last.err = "ok"
    /\ \E n \in DOMAIN parentOf : parentOf[n] # root
    /\ \E p \in index : Len(children[p]) >= 2

\* path is a walk from the root down to X: it leaves out the root, starts
\* at a child of the root, ends at X and goes from parent to child.
LegalWalkTo(path, X) ==
    /\ ~InSeq(root, path)
    /\ IF X = root THEN path = <<>>
       ELSE /\ Len(path) >= 1
            /\ InSeq(path[1], children[root])
            /\ path[Len(path)] = X
            /\ \A k \in 2..Len(path) : InSeq(path[k], children[path[k - 1]])

\* The parent climb from X ends within as many steps as the tree has nodes
\* and gives a legal walk, with which serializeToNode succeeds.
RootPathDerived(X) ==
    LET r == getNodePath(Conv, X)
        s == serializeToNode(Conv, X, FALSE)
    IN  /\ r.ends
        /\ Len(r.path) <= Cardinality(index)
        /\ LegalWalkTo(r.path, X)
        /\ s.err = "ok"
        /\ X = root => s.value = <<>>

\* C26. Root-path derivation terminates and is a legal walk: for every node
\* X of the tree the parent climb from X reaches the root in at most as many
\* steps as there are nodes, and its reverse leaves out the root, starts at
\* a child of the root, ends at X and goes from parent to child; so
\* serializeToNode(X) does not fail for a node X of the tree, and
\* serializeToNode(root) returns the empty list.
RootPathDerivation == [](\A X \in index : RootPathDerived(X))

\* C26 witness: serializeToNode has succeeded for a node two levels below
\* the root.
RootPathDerivationWitness ==
    /\ last.op = "serializeToNode"
    /\ last.err = "ok"
    /\ last.id \in DOMAIN parentOf
    /\ parentOf[last.id] # root

\* serializeToNode(root) has returned the empty list on a tree with messages.
RootSerializedEmpty ==
    /\ last.op = "serializeToNode" /\ last.id = root /\ last.err = "ok"
    /\ last.retMsgs = <<>> /\ messageIndex # <<>>

\* The tail names a node of the tree that is the root, a message or a branch
\* root, and every well-formed message with a new id can be added without
\* naming a parent.
TailUsable ==
    /\ lastTopLevelId \in index
    /\ ~IsPart(lastTopLevelId)
    /\ lastTopLevelId = root \/ lastTopLevelId \in TurnIds \/ IsBranchRoot(lastTopLevelId)
    /\ \A message \in Messages :
          (WellFormed(message) /\ message.id \notin index)
          => addMessage(Conv, message, None).err = "ok"

\* C27. The default tail always exists: in every reachable state
\* lastTopLevelId is the id of a node of the tree (the root, a message or a
\* branch root, never a part node), so addMessage without parent and with an
\* id that is not in the tree never fails.
DefaultTailExists == []TailUsable

\* C27 witness: an addMessage without parent has succeeded while the tail
\* was a branch root.
DefaultTailExistsWitness ==
    /\ last.op = "addMessage"
    /\ last.err = "ok"
    /\ last.parentId = None
    /\ IsBranchRoot(parentOf[last.id])

-----------------------------------------------------------------------------
(* The IdTree variant with reparent: it keeps index and the child sequences  *)
(* and no parentOf map; the parent of a node is searched from the root.      *)

\* appendChild of the variant: [err, t]
appendChildV3(t, parentId, childId) ==
    IF ~(parentId \in t.index) THEN [err |-> "ParentNotFound", t |-> t]
    ELSE IF childId \in t.index THEN [err |-> "DuplicateId", t |-> t]
    ELSE [err |-> "ok",
          t |-> [t EXCEPT !.children = [n \in DOMAIN @ \cup {childId} |->
                                          IF n = parentId THEN Append(@[n], childId)
                                          ELSE IF n = childId THEN <<>>
                                          ELSE @[n]],
                          !.index = @ \cup {childId}]]

\* The depth-first search of findParent: stack holds the ids still to visit,
\* its last element is popped first; fuel counts the pops still allowed.
RECURSIVE searchParent(_, _, _, _)
searchParent(t, id, stack, fuel) ==
    IF stack = <<>> \/ fuel = 0 THEN None
    ELSE LET cur == stack[Len(stack)]
             rest == SubSeq(stack, 1, Len(stack) - 1)
             kids == t.children[cur]
         IN  IF \E k \in 1..Len(kids) : kids[k] = id THEN Some(cur)
             ELSE searchParent(t, id, rest \o kids, fuel - 1)

\* findParent(id): null for the root and for ids not in the index
findParent(t, id) ==
    IF ~(id \in t.index) \/ id = t.root THEN None
    ELSE searchParent(t, id, <<t.root>>, Cardinality(t.index) + 1)

\* oldParent.children.splice(i, 1) for the first i with children[i].id = nodeId
RemoveFirst(s, x) ==
    IF \E k \in 1..Len(s) : s[k] = x
    THEN LET i == CHOOSE k \in 1..Len(s) : s[k] = x /\ \A j \in 1..(k - 1) : s[j] # x
         IN  SubSeq(s, 1, i - 1) \o SubSeq(s, i + 1, Len(s))
    ELSE s

\* reparent(nodeId, newParentId): [err, t]
reparent(t, nodeId, newParentId) ==
    IF nodeId = t.root THEN [err |-> "CannotReparentRoot", t |-> t]
    ELSE IF ~(nodeId \in t.index) THEN [err |-> "NodeNotFound", t |-> t]
    ELSE IF ~(newParentId \in t.index) THEN [err |-> "ParentNotFound", t |-> t]
    ELSE LET oldParent == findParent(t, nodeId)
         IN  IF oldParent = None THEN [err |-> "OldParentNotFound", t |-> t]
             ELSE LET removed == [t.children EXCEPT ![oldParent[1]] = RemoveFirst(@, nodeId)]
                  IN  [err |-> "ok",
                       t |-> [t EXCEPT !.children =
                                  [removed EXCEPT ![newParentId] = Append(@, nodeId)]]]

\* tree.appendChild(parentId, childId) of the variant.
AppendChildV3 ==
    /\ Idle
    /\ \E parentId \in index \cup {MissingId}, childId \in NodeIds \cup {RootId} :
          LET r == appendChildV3(Tree, parentId, childId)
          IN  /\ r.err = "ok" => Cardinality(index) < MaxNodes
              /\ children' = r.t.children
              /\ index' = r.t.index
              /\ last' = Call("appendChild", childId, <<>>, Some(parentId), None, <<>>,
                              r.err, IF r.err = "ok" THEN childId ELSE "", <<>>, <<>>)
    /\ UNCHANGED <<root, parentOf, messageIndex, lastTopLevelId, appended, kinds, history, ui>>

\* tree.reparent(nodeId, newParentId).
Reparent ==
    /\ Idle
    /\ \E nodeId \in index \cup {MissingId}, newParentId \in index \cup {MissingId} :
          LET r == reparent(Tree, nodeId, newParentId)
          IN  /\ children' = r.t.children
              /\ index' = r.t.index
              /\ last' = Call("reparent", nodeId, <<>>, Some(newParentId), None, <<>>,
                              r.err, "", <<>>, <<>>)
    /\ UNCHANGED <<root, parentOf, messageIndex, lastTopLevelId, appended, kinds, history, ui>>

NextReparent ==
    \/ AppendChildV3
    \/ Reparent
    \/ TakeResult

SpecReparent == Init /\ [][NextReparent]_vars

\* The parents of n: the nodes that have n in their child sequence.
ParentsOf(n) == {p \in index : InSeq(n, children[p])}

\* n is met when descending from its own children.
OwnAncestor(n) ==
    LET kids == {children[n][k] : k \in 1..Len(children[n])}
    IN  n \in ReachFrom(kids, kids)

\* C28. With reparent, the tree stays a strict hierarchy after any sequence
\* of appendChild and reparent calls: every indexed node is reachable from
\* the root, every node but the root occurs exactly once as a child, and no
\* node is its own ancestor, also when newParentId is nodeId itself or one of
\* its descendants.
StrictHierarchy ==
    /\ ReachFrom({root}, {root}) = index
    /\ \A n \in index \ {root} :
          Cardinality({s \in ChildSlots : IdAt(s) = n}) = 1
    /\ \A n \in index : ~OwnAncestor(n)

\* Reparenting the root fails and changes nothing; every node but the root
\* keeps exactly one place as a child.
RootNotReparented ==
    /\ (last.op = "reparent" /\ last.id = root) => last.err = "CannotReparentRoot"
    /\ ParentsOf(root) = {}
    /\ \A n \in index \ {root} :
          Cardinality({s \in ChildSlots : IdAt(s) = n}) = 1

\* A node was reparented under itself and is now its own child.
ReparentedUnderItself ==
    /\ last.op = "reparent" /\ last.err = "ok"
    /\ last.parentId = Some(last.id)
    /\ InSeq(last.id, children[last.id])

\* A reparent to a parent outside the moved subtree went well.
ReparentedElsewhere ==
    /\ last.op = "reparent" /\ last.err = "ok"
    /\ last.parentId # Some(last.id)
    /\ StrictHierarchy
    /\ Cardinality(index) >= 4

-----------------------------------------------------------------------------
(* useBranchingChat: the hook around one conversation tree.  An action is    *)
(* one run of the hook's code between two awaits: the sync effect, the part  *)
(* of a helper before its await, the part after it.                          *)

\* Ids useChat gives to the messages of the chat.
ChatIds == {"U1", "A1", "U2"}

ChatMessages == [id : ChatIds, parts : SeqsUpTo(PartTypes, MaxParts)]

\* The loop of the sync effect from message k on:
\*   if (!m?.id) continue; if (known.has(m.id)) continue;
\*   conv.addMessage(m); known.add(m.id);
\* [err, c, known, calls]: an addMessage that throws ends the loop; calls
\* are the records of the addMessage calls that went well.
RECURSIVE syncFrom(_, _, _, _, _)

\* The loop after conv.addMessage(messages[k]) returned r: a throw ends the
\* effect, otherwise the id is known and the loop goes on.
syncAdded(r, known, messages, k, calls) ==
    IF r.err # "ok"
    THEN [err |-> r.err, c |-> r.c, known |-> known, calls |-> calls]
    ELSE syncFrom(r.c, known \cup {messages[k].id}, messages, k + 1,
                  Append(calls, Outcome("addMessage", messages[k].id, messages[k].parts,
                                        None, None, "ok", r.node)))

\* The loop in which the last message is only appended to the tree, as if
\* addMessage gave way to other code before attachParts
RECURSIVE syncFrom_torn(_, _, _, _, _)
syncFrom_torn(c, known, messages, k, calls) ==
    IF k > Len(messages) THEN [err |-> "ok", c |-> c, known |-> known, calls |-> calls]
    ELSE LET m == messages[k]
         IN  IF m.id = "" \/ m.id \in known
             THEN syncFrom_torn(c, known, messages, k + 1, calls)
             ELSE IF k = Len(messages) /\ ~has(c.tree, m.id)
             THEN [err |-> "ok",
                   c |-> treeAppend(c, c.lastTopLevelId, m.id, "message").c,
                   known |-> known \cup {m.id},
                   calls |-> Append(calls, Outcome("addMessage", m.id, m.parts, None,
                                                   None, "ok", m.id))]
             ELSE LET r == addMessage(c, m, None)
                  IN  IF r.err # "ok"
                      THEN [err |-> r.err, c |-> r.c, known |-> known, calls |-> calls]
                      ELSE syncFrom_torn(r.c, known \cup {m.id}, messages, k + 1,
                                         Append(calls, Outcome("addMessage", m.id, m.parts,
                                                               None, None, "ok", r.node)))

\* for (const m of messages): a message without id or with a known id
\* is skipped, any other is given to conv.addMessage(m) with no parent.
syncFrom(c, known, messages, k, calls) ==
    IF k > Len(messages) THEN [err |-> "ok", c |-> c, known |-> known, calls |-> calls]
    ELSE IF messages[k].id = "" \/ messages[k].id \in known
    THEN syncFrom(c, known, messages, k + 1, calls)
    ELSE syncAdded(addMessage(c, messages[k], None), known, messages, k, calls)

\* The effect after its loop left r: the active path becomes the path to
\* the last visible message. An addMessage that throws ends the effect
\* before setActiveNodePath.
syncEffectDone(r, u) ==
    [err |-> r.err, c |-> r.c, known |-> r.known, calls |-> r.calls,
     activeNodePath |->
         IF r.err # "ok" THEN u.activeNodePath
         ELSE IF Len(u.messages) > 0
         THEN getNodePath(r.c, u.messages[Len(u.messages)].id).path
         ELSE <<>>]

\* useEffect(..., [messages])
syncEffect(c, u) == syncEffectDone(syncFrom(c, u.known, u.messages, 1, <<>>), u)

\* The loop of the beginBranch helper, run when the anchor is not in the
\* tree: it has no test for a missing id.
RECURSIVE syncUnknownFrom(_, _, _, _, _)

syncUnknownAdded(r, known, messages, k, calls) ==
    IF r.err # "ok"
    THEN [err |-> r.err, c |-> r.c, known |-> known, calls |-> calls]
    ELSE syncUnknownFrom(r.c, known \cup {messages[k].id}, messages, k + 1,
                         Append(calls, Outcome("addMessage", messages[k].id,
                                               messages[k].parts, None, None, "ok", r.node)))

syncUnknownFrom(c, known, messages, k, calls) ==
    IF k > Len(messages) THEN [err |-> "ok", c |-> c, known |-> known, calls |-> calls]
    ELSE IF messages[k].id \in known
    THEN syncUnknownFrom(c, known, messages, k + 1, calls)
    ELSE syncUnknownAdded(addMessage(c, messages[k], None), known, messages, k, calls)

\* The beginBranch helper ends by a throw after its loop left s: what the
\* loop added stays, no branch is made.
helperThrows(s, err) ==
    [err |-> err, c |-> s.c, known |-> s.known, calls |-> s.calls,
     branchRootId |-> "", upToAnchor |-> <<>>]

\* The helper after conv.beginBranch returned b and conv.serializeToNode
\* returned v.
branchSerialized(s, b, v, anchorMessageId, label) ==
    [err |-> v.err, c |-> b.c, known |-> s.known,
     calls |-> Append(s.calls, Outcome("beginBranch", anchorMessageId, <<>>, None,
                                       Some(label), "ok", b.branchRootId)),
     branchRootId |-> b.branchRootId, upToAnchor |-> v.value]

\* The helper after conv.beginBranch(anchorMessageId, label) returned b.
branchMade(s, b, anchorMessageId, label) ==
    IF b.err # "ok" THEN helperThrows(s, b.err)
    ELSE branchSerialized(s, b, serializeToNode(b.c, anchorMessageId, FALSE),
                          anchorMessageId, label)

\* The helper after its loop left s: the anchor must be in the tree now.
branchAfterLoop(s, anchorMessageId, label) ==
    IF s.err # "ok" THEN helperThrows(s, s.err)
    ELSE IF ~has(s.c.tree, anchorMessageId) THEN helperThrows(s, "AnchorNotFound")
    ELSE branchMade(s, beginBranch(s.c, anchorMessageId, Some(label)),
                    anchorMessageId, label)

\* beginBranch(anchorMessageId, label = "branch") of the hook up to its
\* await: [err, c, known, calls, branchRootId, upToAnchor]
branchHelper(c, u, anchorMessageId, label) ==
    branchAfterLoop(IF has(c.tree, anchorMessageId)
                    THEN [err |-> "ok", c |-> c, known |-> u.known, calls |-> <<>>]
                    ELSE syncUnknownFrom(c, u.known, u.messages, 1, <<>>),
                    anchorMessageId, label)

\* The tree nodes the messages of a list will take that are not in the tree
\* yet: one per message and one per part.
RECURSIVE NodesOwed(_, _)
NodesOwed(messages, seen) ==
    IF messages = <<>> THEN 0
    ELSE LET m == Head(messages)
         IN  IF m.id \in index \cup seen THEN NodesOwed(Tail(messages), seen)
             ELSE 1 + Len(m.parts) + NodesOwed(Tail(messages), seen \cup {m.id})

\* The tree stays within MaxNodes when the messages of the list and n more
\* nodes are added.
RoomFor(messages, n) == Cardinality(index) + NodesOwed(messages, {}) + n <= MaxNodes

\* An error thrown by the effect ends the component.
Alive == ui.err = "ok"

\* A path is selected while the tree has at most MaxReadNodes nodes and no
\* other helper call waits.
CanSelect == Alive /\ ui.pending = None /\ Cardinality(index) <= MaxReadNodes

\* A wholesale replace is followed by one sync effect; later changes of the
\* list are no longer that replace.
Touched(replaced) == IF replaced = "synced" THEN "no" ELSE replaced

CallIds(calls) == [k \in 1..Len(calls) |-> calls[k].id]

AddedIds(calls) ==
    CallIds(SelectSeq(calls, LAMBDA call : call.op = "addMessage"))

TreeUntouched ==
    UNCHANGED <<root, children, index, parentOf, messageIndex, lastTopLevelId, appended,
                kinds, history, last>>

\* useChat puts a new message at the end of messages: the user's message
\* after sendMessage, or a reply from the stream.
ChatMessage ==
    /\ Alive
    /\ \E m \in ChatMessages :
          /\ m.id \notin index
          /\ ~InSeq(m.id, Ids(ui.messages))
          /\ RoomFor(Append(ui.messages, m), 0)
          /\ ui' = [ui EXCEPT !.messages = Append(@, m),
                              !.dirty = TRUE,
                              !.replaced = Touched(@)]
    /\ TreeUntouched

\* The state after the sync effect ended with r.
Synced(r) ==
    /\ Install(r.c)
    /\ history' = history \o r.calls
    /\ ui' = [ui EXCEPT !.known = r.known,
                        !.activeNodePath = r.activeNodePath,
                        !.dirty = FALSE,
                        !.err = r.err,
                        !.added = @ \o AddedIds(r.calls),
                        !.replaced = IF @ = "pending" THEN "synced" ELSE "no"]

\* The sync effect runs after messages has changed.
SyncEffect ==
    /\ Alive
    /\ ui.dirty
    /\ Synced(syncEffect(Conv, ui))
    /\ last' = last

\* Anchors a caller of the beginBranch helper names: a message of the tree,
\* a message on display, an id that is neither.
AnchorArgs ==
    DOMAIN messageIndex \cup {ui.messages[k].id : k \in 1..Len(ui.messages)} \cup {MissingId}

Waiting(kind, msgs, path, target, branchRootId) ==
    [kind |-> kind, msgs |-> msgs, path |-> path, target |-> target,
     branchRootId |-> branchRootId]

\* The state when the beginBranch helper reached its await, or threw
\* before it, with r.
BranchAwaits(r, anchorMessageId) ==
    /\ Install(r.c)
    /\ history' = history \o r.calls
    /\ ui' = [ui EXCEPT
                !.known = r.known,
                !.pending = IF r.err = "ok"
                            THEN Some(Waiting("beginBranch", r.upToAnchor, <<>>,
                                              anchorMessageId, r.branchRootId))
                            ELSE @,
                !.selected = IF r.err = "ok" THEN None ELSE @,
                !.added = IF r.err = "ok" THEN <<>> ELSE @ \o AddedIds(r.calls)]

\* beginBranch(anchorMessageId) of the hook, up to its await.
BeginBranchCall ==
    /\ Alive
    /\ ui.pending = None
    /\ RoomFor(ui.messages, 1)
    /\ \E anchorMessageId \in AnchorArgs :
          BranchAwaits(branchHelper(Conv, ui, anchorMessageId, DefaultBranchLabel),
                       anchorMessageId)
    /\ last' = last

\* Node paths a caller of the hook passes: the root path of a node, and a
\* path that is not in the tree.
PathArgs == RootPaths \cup {<<MissingId>>}

\* A select helper reached its await with the serialized messages r, or the
\* serialization threw and nothing changed.
SelectAwaits(kind, r, nodePath, targetNodeId) ==
    ui' = [ui EXCEPT !.pending = IF r.err = "ok"
                                 THEN Some(Waiting(kind, r.value, nodePath, targetNodeId, ""))
                                 ELSE @]

\* selectPathByNodePath(nodePath) up to its await.
SelectPathByNodePathCall ==
    /\ CanSelect
    /\ \E nodePath \in PathArgs :
          SelectAwaits("selectPathByNodePath",
                       serializeFromNodePath(Conv, nodePath, FALSE), nodePath, "")
    /\ TreeUntouched

\* sendMessageOnPath(nodePath, message) up to the await of the
\* selectPathByNodePath it calls.
SendMessageOnPathCall ==
    /\ CanSelect
    /\ \E nodePath \in PathArgs :
          SelectAwaits("sendMessageOnPath",
                       serializeFromNodePath(Conv, nodePath, FALSE), nodePath, "")
    /\ TreeUntouched

\* selectPathToNode(targetNodeId) up to its await.
SelectPathToNodeCall ==
    /\ CanSelect
    /\ \E targetNodeId \in index \cup {MissingId} :
          SelectAwaits("selectPathToNode", serializeToNode(Conv, targetNodeId, FALSE),
                       <<>>, targetNodeId)
    /\ TreeUntouched

\* The active path a waiting helper sets: the path to the anchor and the
\* branch node, the path to the target, or the path it was given.
ResumePath(p, toTarget) ==
    IF p.kind = "beginBranch" THEN Append(toTarget, p.branchRootId)
    ELSE IF p.kind = "selectPathToNode" THEN toTarget
    ELSE p.path

Resumed(p, path) ==
    \E sent \in IF p.kind = "sendMessageOnPath"
                THEN {<<m>> : m \in {x \in ChatMessages :
                                        /\ x.id \notin index
                                        /\ RoomFor(Append(p.msgs, x), 0)}}
                ELSE {<<>>} :
       ui' = [ui EXCEPT
                !.messages = p.msgs \o sent,
                !.activeNodePath = path,
                !.dirty = TRUE,
                !.pending = None,
                !.selected = IF p.kind = "beginBranch" THEN None ELSE Some(path),
                !.added = <<>>,
                !.replaced = Touched(@)]

\* A waiting helper goes on after its await: originalSetMessages and
\* setActiveNodePath; sendMessageOnPath then sends its message, which
\* useChat puts at the end of messages.
Resume ==
    /\ Alive
    /\ ui.pending # None
    /\ Resumed(ui.pending[1],
               ResumePath(ui.pending[1], getNodePath(Conv, ui.pending[1].target).path))
    /\ TreeUntouched

\* Lists a caller of setMessages passes: the list on display cut after some
\* message (the empty list and the whole list included), and the messages
\* along the root path of a node of the tree.
SetLists ==
    {SubSeq(ui.messages, 1, k) : k \in 0..Len(ui.messages)}
        \cup {serializeToNode(Conv, x, FALSE).value : x \in index}

\* setMessages(next) of the hook: the known set is cleared and the list
\* replaced.
SetMessages ==
    /\ Alive
    /\ Cardinality(index) <= MaxReadNodes
    /\ \E value \in SetLists :
          /\ ui' = [ui EXCEPT !.known = {},
                              !.messages = value,
                              !.dirty = TRUE,
                              !.selected = None,
                              !.added = <<>>,
                              !.replaced = "pending"]
    /\ TreeUntouched

NextAdapter ==
    \/ ChatMessage
    \/ SyncEffect
    \/ BeginBranchCall
    \/ SelectPathByNodePathCall
    \/ SelectPathToNodeCall
    \/ SendMessageOnPathCall
    \/ Resume
    \/ SetMessages

SpecAdapter == Init /\ [][NextAdapter]_vars

\* A turn as any later code may observe it: its part nodes, its registered
\* payload.
WholeTurn(t) ==
    /\ t \in index
    /\ ComposedTurn(t)
    /\ t \in DOMAIN messageIndex
    /\ messageIndex[t] = [id |-> t, parts |-> PartsOfTurn(t)]

\* The tail is the node made by the last addMessage or beginBranch that
\* returned.
TailAdvanced ==
    lastTopLevelId = IF history = <<>> THEN root ELSE history[Len(history)].retId

\* Every node is the root, a turn, a part of a turn or a branch root of a
\* call that returned: nothing is left over from a call that was cut short.
NoPartialNodes ==
    \A id \in index \ {root} :
        \/ id \in TurnIds
        \/ id \in BranchRoots
        \/ \E t \in TurnIds : \E k \in 1..Len(PartsOfTurn(t)) :
              k <= Len(children[t]) /\ children[t][k] = id

\* The messages a waiting helper got from its serialize call are registered
\* payloads with all their parts.
SerializedWhole ==
    ui.pending # None =>
        \A k \in 1..Len(ui.pending[1].msgs) :
            LET m == ui.pending[1].msgs[k]
            IN  m.id \in TurnIds /\ m.parts = PartsOfTurn(m.id)

WholeEffects ==
    /\ \A t \in TurnIds : WholeTurn(t)
    /\ DOMAIN messageIndex = TurnIds
    /\ TailAdvanced
    /\ NoPartialNodes
    /\ SerializedWhole

\* C24. No two mutating operations interleave their effects: at every point
\* where the sync effect, a helper of the hook (before or after its await)
\* or a serialize call can run, every turn that an addMessage has put in
\* the tree has all its part nodes and its registered payload, the tail is
\* the node of the last addMessage or beginBranch, no node is left from a
\* half-made call, and the messages a serialize call returned are whole.
AtomicMutations == []WholeEffects

\* C24 witness: while the beginBranch helper waits at its await the sync
\* effect has added a turn with a part.
AtomicMutationsWitness ==
    /\ ui.pending # None
    /\ ui.pending[1].kind = "beginBranch"
    /\ \E k \in 1..Len(ui.added) :
          /\ ui.added[k] \in TurnIds
          /\ Len(PartsOfTurn(ui.added[k])) > 0

\* The node a selected path ends at.
EndOf(path) == path[Len(path)]

\* The messages synced since a path was selected form a chain under the end
\* of that path, and the active path is the selected path and that chain.
ContinuesSelected(path, added) ==
    /\ \A k \in 1..Len(added) :
          parentOf[added[k]] = IF k = 1 THEN EndOf(path) ELSE added[k - 1]
    /\ ui.activeNodePath = path \o added

\* C29. Adapter path switching: once a select helper has set the messages
\* to a non-empty path ending at node N and the sync effect has run on the messages
\* that arrived since, every such message is attached under N or under the
\* message that arrived before it, and activeNodePath is the selected path
\* extended by these messages.
SelectedPathContinued ==
    (/\ Alive
     /\ ui.selected # None
     /\ ui.selected # Some(<<>>)
     /\ ui.pending = None
     /\ ~ui.dirty
     /\ ui.added # <<>>)
        => ContinuesSelected(ui.selected[1], ui.added)

\* What the sync effect and the loop of the beginBranch helper do instead:
\* the first message they add goes under the tail, whatever path is
\* selected, and each further one under the message added before it.
AddedUnderTailStep ==
    (Len(ui'.added) > Len(ui.added) /\ ui.added = SubSeq(ui'.added, 1, Len(ui.added)))
        => \A k \in (Len(ui.added) + 1)..Len(ui'.added) :
              parentOf'[ui'.added[k]] = IF k = Len(ui.added) + 1 THEN lastTopLevelId
                                        ELSE ui'.added[k - 1]

AddedUnderTail == [][AddedUnderTailStep]_vars

\* A path to U1 was selected while the tail was elsewhere, and the message
\* that arrived next was attached under the old tail.
SwitchedThenMisattached ==
    /\ Alive
    /\ ui.selected = Some(<<"U1">>)
    /\ ~ui.dirty
    /\ Len(ui.added) = 1
    /\ parentOf[ui.added[1]] # "U1"
    /\ ui.activeNodePath # <<"U1", ui.added[1]>>

\* Every message on display is a message of the tree.
DisplayedInTree ==
    \A k \in 1..Len(ui.messages) : ui.messages[k].id \in DOMAIN messageIndex

\* C30. Adapter wholesale replace: when the sync effect that follows a
\* setMessages of the hook has run, it has ended without error and every
\* message on display is in the tree, whatever list was set, a list with
\* messages already synced into the tree included.
WholesaleReplaceSyncs ==
    ui.replaced = "synced" => (ui.err = "ok" /\ DisplayedInTree)

\* What holds of a wholesale replace: no id is put in the tree twice (the
\* addMessage for an id of the tree throws instead), the only error of the
\* effect is that throw, and an effect that ends without error leaves
\* every message on display in the tree.
ReplaceAddsOnce ==
    /\ \A id \in index \ {root} :
          Cardinality({p \in index : Occurrences(id, p) > 0}) = 1
          /\ Occurrences(id, parentOf[id]) = 1
    /\ \A i, j \in AddCalls : history[i].id = history[j].id => i = j
    /\ (ui.replaced = "synced" /\ ui.err = "ok") => DisplayedInTree
    /\ ui.err \in {"ok", "DuplicateMessage"}

\* The effect after setMessages with a list holding a synced message has
\* thrown, and a later message of that list never reached the tree.
ReplaceThrew ==
    /\ ui.replaced = "synced"
    /\ ui.err = "DuplicateMessage"
    /\ ~DisplayedInTree

\* The effect after setMessages with only new messages, or none, ended
\* without error.
ReplaceSynced ==
    /\ ui.replaced = "synced"
    /\ ui.err = "ok"
    /\ ui.messages # <<>>

====
